---- MODULE Spec2Model ----
(***************************************************************************)
(* Reef controller firmware (Arduino Mega 2560 + RAMPS): the superloop,    *)
(* the four stepper channels, the two PID heater channels, the DS18B20     *)
(* polling state machine, the fan service and the serial command           *)
(* dispatcher of src/unnamed/part_005.                                     *)
(*                                                                         *)
(* Representation.                                                         *)
(*  - A text line is a sequence of one-character strings.                  *)
(*  - A float is an integer count of tenths (26.5 C is 265); NaN is the    *)
(*    value NaN below and is tested before any comparison, as a            *)
(*    comparison with NAN is false in the program.                         *)
(*  - micros() and millis() are free-running counters modulo UsMod and     *)
(*    MsMod.  The counters are scaled so that the whole range can be       *)
(*    explored: one count of micros stands for the width of a step pulse   *)
(*    and one count of millis for 400 ms.  The scaled constants keep the   *)
(*    order of the program's: pulse <= start offset <= minimum             *)
(*    half-period < feed pause < half the range of micros, and next        *)
(*    request pause < conversion wait < half the range of millis.  The     *)
(*    PID integrates in units of 0.1 s (DtPerCount of them in one count).  *)
(***************************************************************************)
EXTENDS Integers, Sequences, FiniteSets, TLC

\* ------------------------------------------------------------ bounds
MaxRxLines == 2      \* lines the host may have in flight before a drain
MaxElapseUs == 2     \* longest time between two loop iterations (micros counts)
MaxElapseMs == 1     \* the same, in millis counts
MaxInteg == 6        \* the PID integral is explored up to this magnitude
MaxIntegLaw == 64    \* the same, where the control law is explored

\* ------------------------------------------------- program constants
UsMod == 16               \* range of uint32_t micros(), scaled
MsMod == 16               \* range of unsigned long millis(), scaled
MIN_STEP_DELAY_US == 2    \* 400 us
STEP_PULSE_US == 1        \* 4 us
StartOffsetUs == 2        \* micros_now() + 100
FeedPauseMs == 1          \* delay(500)
FeedPauseUs == 1          \* delay(500), on the micros counter
ConvWaitMs == 2           \* now + 800
NextReqMs == 1            \* now + 500
InbufSize == 96           \* char inbuf[96]
DefaultDt == 1            \* dt = 0.1f after a reset
DtPerCount == 4           \* (now - last_ms) / 1000.0f, in units of 0.1 s

NaN == -99999

Axes == 0 .. 3
Probes == 0 .. 3
Channels == {"water", "reserve"}

\* ------------------------------------------------------ characters
UpperLetters ==
  <<"A","B","C","D","E","F","G","H","I","J","K","L","M",
    "N","O","P","Q","R","S","T","U","V","W","X","Y","Z">>
LowerLetters ==
  <<"a","b","c","d","e","f","g","h","i","j","k","l","m",
    "n","o","p","q","r","s","t","u","v","w","x","y","z">>
Digits == <<"0","1","2","3","4","5","6","7","8","9">>

IsSpace(c) == c \in {" ", "\t", "\n", "\r", "\f"}
IsDigit(c) == \E k \in 1 .. 10 : Digits[k] = c
DigitVal(c) == (CHOOSE k \in 1 .. 10 : Digits[k] = c) - 1

ToUpperChar(c) ==
  IF \E k \in 1 .. 26 : LowerLetters[k] = c
    THEN UpperLetters[CHOOSE k \in 1 .. 26 : LowerLetters[k] = c]
    ELSE c

\* String::toUpperCase
ToUpperCase(s) == [k \in 1 .. Len(s) |-> ToUpperChar(s[k])]

\* String::trim: leading and trailing isspace characters are removed
Trim(s) ==
  LET nonsp == {k \in 1 .. Len(s) : ~IsSpace(s[k])}
  IN  IF nonsp = {} THEN <<>>
      ELSE LET lo == CHOOSE k \in nonsp : \A j \in nonsp : k <= j
               hi == CHOOSE k \in nonsp : \A j \in nonsp : k >= j
           IN  SubSeq(s, lo, hi)

\* String::startsWith
StartsWith(s, p) == Len(s) >= Len(p) /\ SubSeq(s, 1, Len(p)) = p

\* String::indexOf(ch, fromIndex): zero-based, -1 when absent
IndexOf(s, c, from) ==
  LET hits == {k \in 0 .. Len(s) - 1 : k >= from /\ s[k + 1] = c}
  IN  IF hits = {} THEN -1 ELSE CHOOSE k \in hits : \A j \in hits : k <= j

\* String::substring(left, right): zero-based, right exclusive; the bounds
\* are swapped when left > right, and right is cut to the length
Substring(s, left, right) ==
  LET l == IF left > right THEN right ELSE left
      r0 == IF left > right THEN left ELSE right
      r == IF r0 > Len(s) THEN Len(s) ELSE r0
  IN  IF l >= Len(s) THEN <<>> ELSE SubSeq(s, l + 1, r)

\* String::charAt: 0 (here the empty string) past the end
CharAt(s, k) == IF k >= Len(s) THEN "" ELSE s[k + 1]

\* The digits at the start of s, as a number
RECURSIVE DigitsValue(_, _)
DigitsValue(s, acc) ==
  IF s = <<>> \/ ~IsDigit(Head(s)) THEN acc
  ELSE DigitsValue(Tail(s), 10 * acc + DigitVal(Head(s)))

RECURSIVE SkipSpace(_)
SkipSpace(s) == IF s # <<>> /\ IsSpace(Head(s)) THEN SkipSpace(Tail(s)) ELSE s

\* toInt returning -1 when the text does not start with a number
MutToIntMinusOne(s) ==
  LET t == SkipSpace(s)
  IN  IF t = <<>> THEN -1
      ELSE IF Head(t) = "-" THEN 0 - DigitsValue(Tail(t), 0)
      ELSE IF Head(t) = "+" THEN DigitsValue(Tail(t), 0)
      ELSE IF IsDigit(Head(t)) THEN DigitsValue(t, 0)
      ELSE -1

\* String::toInt (atol): optional white space, optional sign, digits; 0 when
\* the text does not start with a number
ToInt(s) ==
  LET t == SkipSpace(s)
  IN  IF t = <<>> THEN 0
      ELSE IF Head(t) = "-" THEN 0 - DigitsValue(Tail(t), 0)
      ELSE IF Head(t) = "+" THEN DigitsValue(Tail(t), 0)
      ELSE DigitsValue(t, 0)

RECURSIVE SkipDigits(_)
SkipDigits(s) == IF s # <<>> /\ IsDigit(Head(s)) THEN SkipDigits(Tail(s)) ELSE s

\* String::toFloat (atof), in tenths: sign, digits, and the first digit after
\* a decimal point; 0 when the text does not start with a number
ToFloat(s) ==
  LET t == SkipSpace(s)
      neg == t # <<>> /\ Head(t) = "-"
      u == IF t # <<>> /\ Head(t) \in {"-", "+"} THEN Tail(t) ELSE t
      whole == DigitsValue(u, 0)
      rest == SkipDigits(u)
      frac == IF Len(rest) >= 2 /\ rest[1] = "." /\ IsDigit(rest[2])
                THEN DigitVal(rest[2]) ELSE 0
      mag == 10 * whole + frac
  IN  IF neg THEN 0 - mag ELSE mag

\* constrain(x, lo, hi)
\* A long stored in an int: the int of the ATmega2560 has 16 bits
IntRange == 65536
IntOf(v) == ((v + IntRange \div 2) % IntRange) - IntRange \div 2

Constrain(x, lo, hi) == IF x < lo THEN lo ELSE IF x > hi THEN hi ELSE x

Abs(x) == IF x < 0 THEN 0 - x ELSE x

\* (int32_t)(a - b) >= 0 on a counter of range m
SignedGE(a, b, m) == ((a - b) % m) < (m \div 2)

\* ------------------------------------------------ command literals
S_HELLO == <<"H","E","L","L","O","?">>
S_STATUS == <<"S","T","A","T","U","S","?">>
S_TEMP == <<"T","E","M","P","?">>
S_PH == <<"P","H","?">>
S_LEVEL == <<"L","E","V","E","L","?">>
S_MTR_ON == <<"M","T","R"," ","O","N">>
S_MTR_OFF == <<"M","T","R"," ","O","F","F">>
S_FAN == <<"F","A","N"," ">>
S_AUTOCOOL == <<"A","U","T","O","C","O","O","L"," ">>
S_HEATW == <<"H","E","A","T","W"," ">>
S_HEATR == <<"H","E","A","T","R"," ">>
S_PIDW == <<"P","I","D","W"," ">>
S_PIDR == <<"P","I","D","R"," ">>
S_SERVO == <<"S","E","R","V","O"," ">>
S_PUMP == <<"P","U","M","P"," ">>
S_SERVOFEED == <<"S","E","R","V","O","F","E","E","D">>

\* ------------------------------------------------------- replies
\* One reply line: "OK", "ERR|code|text", or one of the report lines
Reply(kind, code, text) == [kind |-> kind, code |-> code, text |-> text]
ReplyOk == Reply("OK", "", <<>>)
ReplyErr(code) == Reply("ERR", code, <<>>)

\* ------------------------------------------------------- PID channel
\* pid_controller_init
PidInit(sensor, maxC) ==
  [target |-> 0, Kp |-> 120, Ki |-> 4, Kd |-> 600, integ |-> 0, prevE |-> 0,
   last_ms |-> 0, sensor |-> sensor, minC |-> -50, maxC |-> maxC,
   fault |-> FALSE]

\* pid_controller_reset
pid_controller_reset(p) ==
  [p EXCEPT !.integ = 0, !.prevE = 0, !.last_ms = 0, !.fault = FALSE]

\* The reading is NAN or outside [minC - 1, maxC + 5]
SensorBad(p, t) == t = NaN \/ t < p.minC - 10 \/ t > p.maxC + 50

\* The control law, as a fraction num/den: Kp*err + Ki*integ + Kd*deriv with
\* the values in tenths and dt in units of 0.1 s
LawNum(p, err, integ, dt) ==
  IF dt > 0
    THEN 10 * dt * p.Kp * err + dt * p.Ki * integ + 100 * p.Kd * (err - p.prevE)
    ELSE 10 * p.Kp * err + p.Ki * integ
LawDen(dt) == IF dt > 0 THEN 1000 * dt ELSE 1000

\* The clamp without its upper limit
MutClampNoUpper(num, den) == IF num < 0 THEN 0 ELSE num \div den

\* if (out < 0) out = 0; if (out > 255) out = 255; return (int)out
ClampOut(num, den) ==
  IF num < 0 THEN 0 ELSE IF num > 255 * den THEN 255 ELSE num \div den

\* pid_controller_compute with the idle test moved before the sensor test
MutComputeTargetFirst(p, t, now) ==
  IF p.target <= 0
    THEN [p |-> pid_controller_reset(p), out |-> 0]
  ELSE IF SensorBad(p, t)
    THEN [p |-> [p EXCEPT !.fault = TRUE], out |-> 0]
  ELSE
    LET dt == IF p.last_ms = 0 THEN DefaultDt
              ELSE DtPerCount * ((now - p.last_ms) % MsMod)
        err == p.target - t
        integ == p.integ + err * dt
    IN  [p |-> [p EXCEPT !.last_ms = now, !.integ = integ, !.prevE = err],
         out |-> ClampOut(LawNum(p, err, integ, dt), LawDen(dt))]

\* pid_controller_compute: the channel after the tick and the value returned
pid_controller_compute(p, t, now) ==
  IF SensorBad(p, t)
    THEN [p |-> [p EXCEPT !.fault = TRUE], out |-> 0]
  ELSE IF p.target <= 0
    THEN [p |-> pid_controller_reset(p), out |-> 0]
  ELSE
    LET dt == IF p.last_ms = 0 THEN DefaultDt
              ELSE DtPerCount * ((now - p.last_ms) % MsMod)
        err == p.target - t
        integ == p.integ + err * dt
    IN  [p |-> [p EXCEPT !.last_ms = now, !.integ = integ, !.prevE = err],
         out |-> ClampOut(LawNum(p, err, integ, dt), LawDen(dt))]

\* ------------------------------------------------------- axis channel
\* struct AxisState, with its default member initialisers
AxisInit ==
  [active |-> FALSE, dir |-> TRUE, remaining |-> 0, period2_us |-> 3,
   next_step_us |-> 0, pending_low |-> FALSE, low_deadline_us |-> 0]

\* axis_from_char taking every other letter for X
MutAxisFromCharOtherIsX(c) ==
  CASE c = "X" -> 0 [] c = "Y" -> 1 [] c = "Z" -> 2 [] c = "E" -> 3
    [] OTHER -> 0

\* axis_from_char
axis_from_char(c) ==
  CASE c = "X" -> 0 [] c = "Y" -> 1 [] c = "Z" -> 2 [] c = "E" -> 3
    [] OTHER -> -1

\* One channel's part of stepper_service: the channel, its step line, and
\* whether the line went from low to high
AxisTick(a, pin, now, abort) ==
  IF ~a.active THEN [a |-> a, pin |-> pin, rise |-> FALSE]
  ELSE
    LET lower == a.pending_low /\ SignedGE(now, a.low_deadline_us, UsMod)
        a1 == IF lower THEN [a EXCEPT !.pending_low = FALSE] ELSE a
        pin1 == IF lower THEN FALSE ELSE pin
    IN  IF ~SignedGE(now, a1.next_step_us, UsMod)
          THEN [a |-> a1, pin |-> pin1, rise |-> FALSE]
        ELSE IF abort
          THEN [a |-> [a1 EXCEPT !.active = FALSE], pin |-> pin1, rise |-> FALSE]
        ELSE
          LET rem == a1.remaining - 1
              a2 == [a1 EXCEPT !.pending_low = TRUE,
                               !.low_deadline_us = (now + STEP_PULSE_US) % UsMod,
                               !.remaining = rem]
          IN  [a |-> IF rem <= 0
                       THEN [a2 EXCEPT !.active = FALSE]
                       ELSE [a2 EXCEPT !.next_step_us =
                                         (a1.next_step_us + a1.period2_us) % UsMod],
               pin |-> TRUE,
               rise |-> ~pin1]

\* ------------------------------------------------ command handling
\* The state a command reads and writes, as one record m:
\*   axis, step_pin, dir_pin, en_pin, motors_enabled, abort_steps, pid,
\*   fan_manual, autocool_thresh, servo, micros, millis, level_low,
\*   level_high, level_alert (the level inputs as read now), tx (the reply
\*   lines printed) and ev (what the command did to the motors, for the
\*   bookkeeping of the properties).
NoEvent == [tag |-> "none", ax |-> -1]

Send(m, r) == [m EXCEPT !.tx = Append(@, r)]
send_ok(m) == Send(m, ReplyOk)
send_err(m, code) == Send(m, ReplyErr(code))

\* send_levels: the three inputs are printed as 0 or 1
PrintBool(b) == IF b THEN "1" ELSE "0"
send_levels(m) ==
  Send(m, Reply("LEVEL", "",
                <<PrintBool(m.level_low), PrintBool(m.level_high),
                  PrintBool(m.level_alert)>>))

\* set_motors: the enable lines are active low
set_motors(m, on) ==
  [m EXCEPT !.motors_enabled = on, !.en_pin = [i \in Axes |-> ~on]]

\* deactivate_axes
deactivate_axes(m) ==
  [m EXCEPT !.axis = [i \in Axes |-> [m.axis[i] EXCEPT !.active = FALSE]],
            !.step_pin = [i \in Axes |-> FALSE]]

\* move_servo
move_servo(m, angle) == [m EXCEPT !.servo = Constrain(angle, 0, 180)]

\* delay(500): both counters run on
Delay(m) ==
  [m EXCEPT !.micros = (@ + FeedPauseUs) % UsMod,
            !.millis = (@ + FeedPauseMs) % MsMod]

\* "MTR ON"
CmdMtrOn(m) == send_ok([set_motors(m, TRUE) EXCEPT !.abort_steps = FALSE])

\* CmdMtrOff that leaves the channels to the abort branch of the tick
MutCmdMtrOffNoDeactivate(m) ==
  send_ok([set_motors([m EXCEPT !.abort_steps = TRUE], FALSE)
             EXCEPT !.ev = [tag |-> "off", ax |-> -1]])

\* "MTR OFF"
CmdMtrOff(m) ==
  send_ok([deactivate_axes(set_motors([m EXCEPT !.abort_steps = TRUE], FALSE))
             EXCEPT !.ev = [tag |-> "off", ax |-> -1]])

\* "FAN <v>"
CmdFan(m, s) ==
  LET val == IntOf(ToInt(Substring(s, 4, Len(s))))
  IN  send_ok([m EXCEPT !.fan_manual =
                          IF val < 0 THEN -1 ELSE Constrain(val, 0, 255)])

\* "AUTOCOOL <v>"
CmdAutocool(m, s) ==
  LET val == ToFloat(Substring(s, 9, Len(s)))
  IN  send_ok([m EXCEPT !.autocool_thresh = Constrain(val, 100, 400),
                        !.fan_manual = -1])

\* HEATW / HEATR storing the target without resetting the channel
MutCmdHeatNoReset(m, s, ch, hi) ==
  LET v == ToFloat(Substring(s, 6, Len(s)))
  IN  send_ok([m EXCEPT !.pid[ch].target = Constrain(v, 0, hi)])

\* "HEATW <v>" (ch = "water", hi = 40) and "HEATR <v>" (ch = "reserve", hi = 50)
CmdHeat(m, s, ch, hi) ==
  LET v == ToFloat(Substring(s, 6, Len(s)))
  IN  send_ok([m EXCEPT !.pid[ch] =
                 pid_controller_reset([@ EXCEPT !.target = Constrain(v, 0, hi)])])

\* "PIDW ..." and "PIDR ...": the markers are searched in the whole line
CmdPid(m, s, ch, code) ==
  LET p == IndexOf(s, "P", 0)
      i == IndexOf(s, "I", 0)
      d == IndexOf(s, "D", 0)
  IN  IF p >= 0 /\ i > p /\ d > i
        THEN send_ok([m EXCEPT !.pid[ch] =
               pid_controller_reset(
                 [@ EXCEPT !.Kp = ToFloat(Substring(s, p + 1, i)),
                           !.Ki = ToFloat(Substring(s, i + 1, d)),
                           !.Kd = ToFloat(Substring(s, d + 1, Len(s)))])])
        ELSE send_err(m, code)

\* "SERVO <angle>"
CmdServo(m, s) ==
  send_ok(move_servo(m, IntOf(ToInt(Substring(s, 6, Len(s))))))

\* SERVOFEED with one open/close cycle
MutCmdServoFeedOnce(m) ==
  send_ok(Delay(move_servo(Delay(move_servo(m, 120)), 10)))

\* "SERVOFEED": two open/close cycles with blocking pauses
CmdServoFeed(m) ==
  LET cyc(x) == Delay(move_servo(Delay(move_servo(x, 120)), 10))
  IN  send_ok(cyc(cyc(m)))

\* PumpStart without the call of set_motors
MutPumpStartNoEnable(m, ax, steps, us) ==
  LET a == [m.axis[ax] EXCEPT !.dir = steps > 0,
                              !.remaining = Abs(steps),
                              !.period2_us = (2 * us) % UsMod,
                              !.next_step_us = (m.micros + StartOffsetUs) % UsMod,
                              !.active = TRUE]
      m1 == [m EXCEPT !.axis[ax] = a, !.dir_pin[ax] = a.dir]
  IN  send_ok([m1 EXCEPT !.abort_steps = FALSE,
                         !.ev = [tag |-> "start", ax |-> ax]])

\* PumpStart leaving the abort flag as it is
MutPumpStartKeepAbort(m, ax, steps, us) ==
  LET a == [m.axis[ax] EXCEPT !.dir = steps > 0,
                              !.remaining = Abs(steps),
                              !.period2_us = (2 * us) % UsMod,
                              !.next_step_us = (m.micros + StartOffsetUs) % UsMod,
                              !.active = TRUE]
      m1 == [m EXCEPT !.axis[ax] = a, !.dir_pin[ax] = a.dir]
      m2 == IF ~m1.motors_enabled THEN set_motors(m1, TRUE) ELSE m1
  IN  send_ok([m2 EXCEPT !.ev = [tag |-> "start", ax |-> ax]])

\* The accepted PUMP: the channel is loaded and started
PumpStart(m, ax, steps, us) ==
  LET a == [m.axis[ax] EXCEPT !.dir = steps > 0,
                              !.remaining = Abs(steps),
                              !.period2_us = (2 * us) % UsMod,
                              !.next_step_us = (m.micros + StartOffsetUs) % UsMod,
                              !.active = TRUE]
      m1 == [m EXCEPT !.axis[ax] = a, !.dir_pin[ax] = a.dir]
      m2 == IF ~m1.motors_enabled THEN set_motors(m1, TRUE) ELSE m1
  IN  send_ok([m2 EXCEPT !.abort_steps = FALSE,
                         !.ev = [tag |-> "start", ax |-> ax]])

\* PumpChecked taking a missing argument for 0 steps
MutPumpCheckedNoArgs(m, s) ==
  LET ax == axis_from_char(CharAt(s, 5))
      sp == IndexOf(s, " ", 6)
      sp2 == IndexOf(s, " ", sp + 1)
      steps == ToInt(Substring(s, sp + 1, sp2))
      arg == ToInt(Substring(s, sp2 + 1, Len(s))) % UsMod
      us == IF arg > MIN_STEP_DELAY_US THEN arg ELSE MIN_STEP_DELAY_US
  IN  IF ax < 0 THEN send_err(m, "PUMP_AXIS")
      ELSE IF sp < 0 \/ sp2 < 0 THEN send_ok(m)
      ELSE IF steps = 0 THEN send_ok(m)
      ELSE IF m.axis[ax].active THEN send_err(m, "PUMP_BUSY")
      ELSE PumpStart(m, ax, steps, us)

\* PumpChecked without the busy check
MutPumpCheckedNoBusy(m, s) ==
  LET ax == axis_from_char(CharAt(s, 5))
      sp == IndexOf(s, " ", 6)
      sp2 == IndexOf(s, " ", sp + 1)
      steps == ToInt(Substring(s, sp + 1, sp2))
      arg == ToInt(Substring(s, sp2 + 1, Len(s))) % UsMod
      us == IF arg > MIN_STEP_DELAY_US THEN arg ELSE MIN_STEP_DELAY_US
  IN  IF ax < 0 THEN send_err(m, "PUMP_AXIS")
      ELSE IF sp < 0 \/ sp2 < 0 THEN send_err(m, "PUMP_ARGS")
      ELSE IF steps = 0 THEN send_ok(m)
      ELSE PumpStart(m, ax, steps, us)

\* PumpChecked with the busy check before the test for zero steps
MutPumpCheckedBusyFirst(m, s) ==
  LET ax == axis_from_char(CharAt(s, 5))
      sp == IndexOf(s, " ", 6)
      sp2 == IndexOf(s, " ", sp + 1)
      steps == ToInt(Substring(s, sp + 1, sp2))
      arg == ToInt(Substring(s, sp2 + 1, Len(s))) % UsMod
      us == IF arg > MIN_STEP_DELAY_US THEN arg ELSE MIN_STEP_DELAY_US
  IN  IF ax < 0 THEN send_err(m, "PUMP_AXIS")
      ELSE IF sp < 0 \/ sp2 < 0 THEN send_err(m, "PUMP_ARGS")
      ELSE IF m.axis[ax].active THEN send_err(m, "PUMP_BUSY")
      ELSE IF steps = 0 THEN send_ok(m)
      ELSE PumpStart(m, ax, steps, us)

\* The checks of "PUMP <axis> <steps> <us>" after the level check
PumpChecked(m, s) ==
  LET ax == axis_from_char(CharAt(s, 5))
      sp == IndexOf(s, " ", 6)
      sp2 == IndexOf(s, " ", sp + 1)
      steps == ToInt(Substring(s, sp + 1, sp2))
      arg == ToInt(Substring(s, sp2 + 1, Len(s))) % UsMod
      us == IF arg > MIN_STEP_DELAY_US THEN arg ELSE MIN_STEP_DELAY_US
  IN  IF ax < 0 THEN send_err(m, "PUMP_AXIS")
      ELSE IF sp < 0 \/ sp2 < 0 THEN send_err(m, "PUMP_ARGS")
      ELSE IF steps = 0 THEN send_ok(m)
      ELSE IF m.axis[ax].active THEN send_err(m, "PUMP_BUSY")
      ELSE PumpStart(m, ax, steps, us)

\* CmdPump with the level check after the check of the axis
MutCmdPumpLevelLate(m, s) ==
  IF axis_from_char(CharAt(s, 5)) < 0 THEN send_err(m, "PUMP_AXIS")
  ELSE IF m.level_low THEN send_err(m, "PUMP_LEVEL")
  ELSE PumpChecked(m, s)

\* CmdPump refusing also while the high-level input is asserted
MutCmdPumpHighBlocks(m, s) ==
  IF m.level_low \/ m.level_high THEN send_err(m, "PUMP_LEVEL")
  ELSE PumpChecked(m, s)

\* PUMP refused while the abort flag of MTR OFF is set
MutCmdPumpLatched(m, s) ==
  IF m.level_low THEN send_err(m, "PUMP_LEVEL")
  ELSE IF m.abort_steps THEN send_err(m, "MTR_OFF")
  ELSE PumpChecked(m, s)

\* "PUMP ..."
CmdPump(m, s) ==
  IF m.level_low THEN send_err(m, "PUMP_LEVEL") ELSE PumpChecked(m, s)

\* The line upper-cased but not trimmed
MutNormNoTrim(raw) == ToUpperCase(raw)

\* s.trim(); s.toUpperCase()
Norm(raw) == ToUpperCase(Trim(raw))

\* process_command: the line is trimmed and upper-cased, then matched
process_command(m0, raw) ==
  LET s == Norm(raw)
      m == [m0 EXCEPT !.ev = NoEvent]
  IN  IF Len(s) = 0 THEN m
      ELSE IF s = S_HELLO THEN Send(m, Reply("HELLO", "2.0.0", <<>>))
      ELSE IF s = S_STATUS THEN Send(m, Reply("STATUS", "2.0.0", <<>>))
      ELSE IF s = S_TEMP \/ s = S_PH THEN Send(m, Reply("TEMPS", "", <<>>))
      ELSE IF s = S_LEVEL THEN send_levels(m)
      ELSE IF s = S_MTR_ON THEN CmdMtrOn(m)
      ELSE IF s = S_MTR_OFF THEN CmdMtrOff(m)
      ELSE IF StartsWith(s, S_FAN) THEN CmdFan(m, s)
      ELSE IF StartsWith(s, S_AUTOCOOL) THEN CmdAutocool(m, s)
      ELSE IF StartsWith(s, S_HEATW) THEN CmdHeat(m, s, "water", 400)
      ELSE IF StartsWith(s, S_HEATR) THEN CmdHeat(m, s, "reserve", 500)
      ELSE IF StartsWith(s, S_PIDW) THEN CmdPid(m, s, "water", "PIDW")
      ELSE IF StartsWith(s, S_PIDR) THEN CmdPid(m, s, "reserve", "PIDR")
      ELSE IF StartsWith(s, S_SERVO) THEN CmdServo(m, s)
      ELSE IF StartsWith(s, S_PUMP) THEN CmdPump(m, s)
      ELSE IF StartsWith(s, S_SERVOFEED) THEN CmdServoFeed(m)
      ELSE Send(m, Reply("ERR", "UNKNOWN_CMD", s))

\* ------------------------------------------------ the host's lines
L_PUMP_X_2 == <<"P","U","M","P"," ","X"," ","2"," ","2">>
L_PUMP_X_NEG == <<"P","U","M","P"," ","X"," ","-","1"," ","0">>
L_PUMP_X_ZERO == <<"P","U","M","P"," ","X"," ","0"," ","5">>
L_PUMP_BAD_AXIS == <<"P","U","M","P"," ","Q"," ","1"," ","2">>
L_PUMP_NO_ARGS == <<"P","U","M","P"," ","X"," ","1">>
L_PUMP_Q == <<"P","U","M","P"," ","Q">>
L_PUMP_Y_ZERO == <<"P","U","M","P"," ","Y"," ","0"," ","5">>
L_PUMP_Z_ZERO == <<"p","u","m","p"," ","z"," ","0"," ","0">>
L_PUMP_E_ZERO == <<"P","U","M","P"," ","E"," ","0"," ","9">>
L_PUMP_E_1 == <<"P","U","M","P"," ","E"," ","1"," ","2">>
L_PUMP_X_TEXT == <<"P","U","M","P"," ","X"," ","a","b","c"," ","5">>
L_PUMP_X_WRAP == <<"P","U","M","P"," ","X"," ","1"," ","-","7">>
L_TEMP == <<"T","E","M","P","?">>
L_STATUS == <<"s","t","a","t","u","s","?">>
L_FAN_128 == <<"F","A","N"," ","1","2","8">>
L_FAN_300 == <<"F","A","N"," ","3","0","0">>
L_FAN_AUTO == <<"F","A","N"," ","-","1">>
L_FAN_NEG_WIDE == <<"F","A","N"," ","-","6","5","5","3","5">>
L_AUTOCOOL_99 == <<"A","U","T","O","C","O","O","L"," ","9","9">>
L_HEATW_99 == <<"H","E","A","T","W"," ","9","9">>
L_HEATR_99 == <<"H","E","A","T","R"," ","9","9">>
L_SERVO_200 == <<"S","E","R","V","O"," ","2","0","0">>
L_SERVO_NEG == <<"S","E","R","V","O"," ","-","5">>
L_AUTOCOOL_22 == <<"A","U","T","O","C","O","O","L"," ","2","2">>
L_FAN_ABC == <<"F","A","N"," ","a","b","c">>
L_FAN_0 == <<"F","A","N"," ","0">>
L_AUTOCOOL_ABC == <<"A","U","T","O","C","O","O","L"," ","a","b","c">>
L_AUTOCOOL_0 == <<"A","U","T","O","C","O","O","L"," ","0">>
L_HEATW_ABC == <<"H","E","A","T","W"," ","a","b","c">>
L_HEATR_ABC == <<"H","E","A","T","R"," ","x">>
L_HEATR_0 == <<"H","E","A","T","R"," ","0">>
L_SERVO_ABC == <<"S","E","R","V","O"," ","a","b","c">>
L_SERVO_0 == <<"S","E","R","V","O"," ","0">>
L_PUMP_X_2_TEXT == <<"P","U","M","P"," ","X"," ","2"," ","z","z">>
L_PUMP_X_2_0 == <<"P","U","M","P"," ","X"," ","2"," ","0">>
L_PUMP_X_0_5 == <<"P","U","M","P"," ","X"," ","0"," ","5">>
L_PIDW_ABC == <<"P","I","D","W"," ","P","a","I","b","D","c">>
L_PIDW_0 == <<"P","I","D","W"," ","P","0","I","0","D","0">>
L_HELLO == <<"H","E","L","L","O","?">>
L_BLANK == <<" "," ">>
L_MTR_OFF == <<"M","T","R"," ","O","F","F">>
L_MTR_ON == <<"M","T","R"," ","O","N">>
L_LEVEL == <<"L","E","V","E","L","?">>
L_SERVOFEED == <<"S","E","R","V","O","F","E","E","D">>
L_HEATW_26 == <<"H","E","A","T","W"," ","2","6">>
L_HEATW_0 == <<"H","E","A","T","W"," ","0">>
L_HEATW_NEG == <<"H","E","A","T","W"," ","-","3">>
L_PIDW == <<"P","I","D","W"," ","P","1","I","2","D","3">>
L_PIDR == <<"P","I","D","R"," ","P","1","I","2","D","3">>
L_PIDW_BAD == <<"P","I","D","W"," ","1"," ","2"," ","3">>
L_FOO == <<"F","O","O">>
L_FOO_LOWER == <<" ","f","o","o"," ">>

\* ------------------------------------------------------------ state
VARIABLES
  axis,              \* AxisState axis[4]
  step_pin,          \* the STEP lines (TRUE = HIGH)
  dir_pin,           \* the DIR lines
  en_pin,            \* the EN lines (TRUE = HIGH = driver disabled)
  motors_enabled,
  abort_steps,
  pid,               \* pid_water, pid_reserve
  heat_pin,          \* analogWrite on the two heater pins
  pwm,               \* the value each pid_controller_compute returned last
  cached_ds,         \* cached_ds[4]
  ds18_pending, ds18_ready_ms, ds18_next_request_ms,
  fan_manual, autocool_thresh,
  fan_pin,           \* analogWrite on the fan pin
  servo,             \* the angle written to the feeder servo
  inbuf,             \* inbuf[0 .. inpos-1]
  rx,                \* bytes received and not yet read (Serial)
  tx,                \* reply lines printed in this iteration of loop()
  micros, millis,    \* the free-running counters
  lvl_low,           \* the low-level input is asserted (pin LOW)
  lvl_high,          \* the high-level input is asserted (pin LOW)
  lvl_alert,         \* the alert-level input is asserted (pin LOW)
  pc,                \* position in loop()
  \* bookkeeping for the properties
  ndisp,             \* commands dispatched in this iteration of loop()
  nbuf,              \* non-empty lines received in this iteration
  owed,              \* rising edges each STEP line still owes its motion
  since_rise,        \* micros counts since the last rising edge of the
                     \* motion, capped at SinceCap (SinceCap: no edge yet)
  halted,            \* "off": MTR OFF was dispatched; "ticked": and
                     \* stepper_service has run since; "no": a PUMP was
                     \* accepted since, or MTR OFF never came
  cmd,               \* the line dispatched last in this iteration, as
                     \* process_command matches it (<<>>: none yet)
  since_req,         \* millis counts since ds18_service last requested a
                     \* conversion, capped at SinceCapMs
  since_read,        \* millis counts since ds18_service last wrote the
                     \* cache, capped at SinceCapMs (SinceCapMs: never)
  after_off          \* per axis: the abort flag was set when the motion
                     \* accepted last was accepted, and no MTR OFF came
                     \* since

motor_vars == <<axis, step_pin, dir_pin, en_pin, motors_enabled, abort_steps>>
pid_vars == <<pid, heat_pin, pwm>>
ds_vars == <<cached_ds, ds18_pending, ds18_ready_ms, ds18_next_request_ms>>
fan_vars == <<fan_manual, autocool_thresh, fan_pin>>
io_vars == <<inbuf, rx, tx>>
env_vars == <<lvl_low, lvl_high, lvl_alert>>
hist_vars == <<ndisp, nbuf, owed, since_rise, halted, after_off, cmd, since_req,
              since_read>>
vars == <<motor_vars, pid_vars, ds_vars, fan_vars, io_vars, env_vars, hist_vars,
          servo, micros, millis, pc>>

SinceCap == UsMod
Later(s, d) == IF s + d > SinceCap THEN SinceCap ELSE s + d
SinceCapMs == ConvWaitMs + NextReqMs
LaterMs(s, d) == IF s + d > SinceCapMs THEN SinceCapMs ELSE s + d

\* The state after setup()
Boot ==
  /\ axis = [i \in Axes |-> AxisInit]
  /\ step_pin = [i \in Axes |-> FALSE]
  /\ dir_pin = [i \in Axes |-> FALSE]
  /\ en_pin = [i \in Axes |-> TRUE]
  /\ motors_enabled = FALSE
  /\ abort_steps = FALSE
  /\ pid = [ch \in Channels |->
              IF ch = "water" THEN PidInit(0, 400) ELSE PidInit(-1, 600)]
  /\ heat_pin = [ch \in Channels |-> 0]
  /\ pwm = [ch \in Channels |-> 0]
  /\ cached_ds = [i \in Probes |-> NaN]
  /\ ds18_pending = FALSE
  /\ ds18_ready_ms = 0
  /\ ds18_next_request_ms = 0
  /\ fan_manual = -1
  /\ autocool_thresh = 280
  /\ fan_pin = 0
  /\ servo = 10
  /\ inbuf = <<>>
  /\ rx = <<>>
  /\ tx = <<>>
  /\ micros = 0
  /\ millis = 0
  /\ lvl_low = FALSE
  /\ lvl_high = FALSE
  /\ lvl_alert = FALSE
  /\ pc = "wait"
  /\ ndisp = 0
  /\ nbuf = 0
  /\ owed = [i \in Axes |-> 0]
  /\ since_rise = [i \in Axes |-> SinceCap]
  /\ halted = "no"
  /\ cmd = <<>>
  /\ since_req = SinceCapMs
  /\ since_read = SinceCapMs
  /\ after_off = [i \in Axes |-> FALSE]

\* Time passes between two iterations of loop()
Elapse(DU, DM) ==
  /\ pc = "wait"
  /\ \E du \in DU, dm \in DM :
       /\ micros' = (micros + du) % UsMod
       /\ millis' = (millis + dm) % MsMod
       /\ since_rise' = [i \in Axes |-> Later(since_rise[i], du)]
       /\ since_req' = LaterMs(since_req, dm)
       /\ since_read' = LaterMs(since_read, dm)
  /\ pc' = "ds18"
  /\ ndisp' = 0
  /\ nbuf' = 0
  /\ tx' = <<>>
  /\ cmd' = <<>>
  /\ UNCHANGED <<motor_vars, pid_vars, ds_vars, fan_vars, inbuf, rx, env_vars,
                 servo, owed, halted, after_off>>

\* What getTempCByIndex returns for each probe when the water probe returns w
Raw(w) == [i \in Probes |-> IF i = 0 THEN w ELSE 250]

\* ds18_service; R is the set of what getTempCByIndex may return for the four
\* probes when they are read (tenths; -1270 is DEVICE_DISCONNECTED_C)
Ds18Tick(R) ==
  /\ pc = "ds18"
  /\ pc' = "stepper"
  /\ IF ~ds18_pending /\ millis >= ds18_next_request_ms
       THEN /\ ds18_ready_ms' = (millis + ConvWaitMs) % MsMod
            /\ ds18_pending' = TRUE
            /\ since_req' = 0
            /\ UNCHANGED <<cached_ds, ds18_next_request_ms, since_read>>
     ELSE IF ds18_pending /\ SignedGE(millis, ds18_ready_ms, MsMod)
       THEN /\ \E raw \in R :
                 cached_ds' = [i \in Probes |->
                                 IF raw[i] > -550 /\ raw[i] < 1250
                                   THEN raw[i] ELSE NaN]
            /\ ds18_pending' = FALSE
            /\ ds18_next_request_ms' = (millis + NextReqMs) % MsMod
            /\ since_read' = 0
            /\ UNCHANGED <<ds18_ready_ms, since_req>>
     ELSE UNCHANGED <<ds_vars, since_req, since_read>>
  /\ UNCHANGED <<motor_vars, pid_vars, fan_vars, io_vars, env_vars,
                 ndisp, nbuf, owed, since_rise, halted, after_off, cmd,
                 servo, micros, millis>>

\* ds18_service storing what the probes return
MutDs18StoreRaw(W) ==
  /\ pc = "ds18"
  /\ pc' = "stepper"
  /\ IF ~ds18_pending /\ millis >= ds18_next_request_ms
       THEN /\ ds18_ready_ms' = (millis + ConvWaitMs) % MsMod
            /\ ds18_pending' = TRUE
            /\ since_req' = 0
            /\ UNCHANGED <<cached_ds, ds18_next_request_ms, since_read>>
     ELSE IF ds18_pending /\ SignedGE(millis, ds18_ready_ms, MsMod)
       THEN /\ \E w \in W :
                 cached_ds' = Raw(w)
            /\ ds18_pending' = FALSE
            /\ ds18_next_request_ms' = (millis + NextReqMs) % MsMod
            /\ since_read' = 0
            /\ UNCHANGED <<ds18_ready_ms, since_req>>
     ELSE UNCHANGED <<ds_vars, since_req, since_read>>
  /\ UNCHANGED <<motor_vars, pid_vars, fan_vars, io_vars, env_vars,
                 ndisp, nbuf, owed, since_rise, halted, after_off, cmd,
                 servo, micros, millis>>

\* ds18_service when only the water probe varies: it may return any w in W
Ds18Service(W) == Ds18Tick({Raw(w) : w \in W})

\* stepper_service followed by fan_service
MutStepperServiceThenFan ==
  /\ pc = "stepper"
  /\ pc' = "fan"
  /\ \E r \in {[i \in Axes |-> AxisTick(axis[i], step_pin[i], micros, abort_steps)]} :
         /\ axis' = [i \in Axes |-> r[i].a]
         /\ step_pin' = [i \in Axes |-> r[i].pin]
         /\ owed' = [i \in Axes |-> IF r[i].rise THEN owed[i] - 1 ELSE owed[i]]
         /\ since_rise' = [i \in Axes |-> IF r[i].rise THEN 0 ELSE since_rise[i]]
  /\ halted' = IF halted = "off" THEN "ticked" ELSE halted
  /\ UNCHANGED <<dir_pin, en_pin, motors_enabled, abort_steps, pid_vars, ds_vars,
                 fan_vars, io_vars, env_vars, ndisp, nbuf, cmd, after_off,
                 since_req, since_read, servo, micros, millis>>

\* stepper_service
StepperService ==
  /\ pc = "stepper"
  /\ pc' = "heaters"
  /\ \E r \in {[i \in Axes |-> AxisTick(axis[i], step_pin[i], micros, abort_steps)]} :
         /\ axis' = [i \in Axes |-> r[i].a]
         /\ step_pin' = [i \in Axes |-> r[i].pin]
         /\ owed' = [i \in Axes |-> IF r[i].rise THEN owed[i] - 1 ELSE owed[i]]
         /\ since_rise' = [i \in Axes |-> IF r[i].rise THEN 0 ELSE since_rise[i]]
  /\ halted' = IF halted = "off" THEN "ticked" ELSE halted
  /\ UNCHANGED <<dir_pin, en_pin, motors_enabled, abort_steps, pid_vars, ds_vars,
                 fan_vars, io_vars, env_vars, ndisp, nbuf, cmd, after_off,
                 since_req, since_read, servo, micros, millis>>

\* heaters_service with the reserve channel reading the water probe
MutHeatersTickReserveReads(cap) ==
  /\ pc = "heaters"
  /\ pc' = "fan"
  /\ \E w \in {pid_controller_compute(pid["water"], cached_ds[0], millis)},
        r \in {pid_controller_compute(pid["reserve"], cached_ds[0], millis)} :
         /\ Abs(w.p.integ) <= cap
         /\ pid' = [ch \in Channels |-> IF ch = "water" THEN w.p ELSE r.p]
         /\ pwm' = [ch \in Channels |-> IF ch = "water" THEN w.out ELSE r.out]
         /\ heat_pin' = [ch \in Channels |->
                           IF (IF ch = "water" THEN w.out ELSE r.out) > 0
                             THEN 255 ELSE 0]
  /\ UNCHANGED <<motor_vars, ds_vars, fan_vars, io_vars, env_vars, hist_vars,
                 servo, micros, millis>>

\* heaters_service writing the computed value to the relay as a duty
MutHeatersTickDuty(cap) ==
  /\ pc = "heaters"
  /\ pc' = "fan"
  /\ \E w \in {pid_controller_compute(pid["water"], cached_ds[0], millis)},
        r \in {pid_controller_compute(pid["reserve"], NaN, millis)} :
         /\ Abs(w.p.integ) <= cap
         /\ pid' = [ch \in Channels |-> IF ch = "water" THEN w.p ELSE r.p]
         /\ pwm' = [ch \in Channels |-> IF ch = "water" THEN w.out ELSE r.out]
         /\ heat_pin' = pwm'
  /\ UNCHANGED <<motor_vars, ds_vars, fan_vars, io_vars, env_vars, hist_vars,
                 servo, micros, millis>>

\* heaters_service: both channels are computed, the relays are driven fully
\* on or off
HeatersTick(cap) ==
  /\ pc = "heaters"
  /\ pc' = "fan"
  /\ \E w \in {pid_controller_compute(pid["water"], cached_ds[0], millis)},
        r \in {pid_controller_compute(pid["reserve"], NaN, millis)} :
         /\ Abs(w.p.integ) <= cap
         /\ pid' = [ch \in Channels |-> IF ch = "water" THEN w.p ELSE r.p]
         /\ pwm' = [ch \in Channels |-> IF ch = "water" THEN w.out ELSE r.out]
         /\ heat_pin' = [ch \in Channels |->
                           IF (IF ch = "water" THEN w.out ELSE r.out) > 0
                             THEN 255 ELSE 0]
  /\ UNCHANGED <<motor_vars, ds_vars, fan_vars, io_vars, env_vars, hist_vars,
                 servo, micros, millis>>

\* heaters_service, the integral explored up to MaxInteg
HeatersService == HeatersTick(MaxInteg)

\* fan_service without the cut of the ramp at 1.0
MutFanOutNoCut(manual, ta, thresh) ==
  IF manual >= 0 THEN Constrain(manual, 0, 255)
  ELSE IF ta = NaN \/ ta <= thresh THEN 0
  ELSE (255 * (ta - thresh)) \div 50

\* The value fan_service writes
FanOut(manual, ta, thresh) ==
  IF manual >= 0 THEN Constrain(manual, 0, 255)
  ELSE IF ta = NaN \/ ta <= thresh THEN 0
  ELSE IF ta - thresh >= 50 THEN 255
  ELSE (255 * (ta - thresh)) \div 50

\* fan_service
FanService ==
  /\ pc = "fan"
  /\ pc' = "serial"
  /\ fan_pin' = FanOut(fan_manual, cached_ds[1], autocool_thresh)
  /\ UNCHANGED <<motor_vars, pid_vars, ds_vars, fan_manual, autocool_thresh,
                 io_vars, env_vars, hist_vars, servo, micros, millis>>

\* The byte 0, which ends a C string
NUL == "NUL"

\* String(inbuf): the bytes of inbuf before its first byte 0
CStr(buf) ==
  LET z == {k \in 1 .. Len(buf) : buf[k] = NUL}
  IN  IF z = {} THEN buf
      ELSE SubSeq(buf, 1, (CHOOSE k \in z : \A j \in z : k <= j) - 1)


\* The while loop dispatching at every terminator, also with inbuf empty
RECURSIVE MutReadBytesEmptyLine(_, _)
MutReadBytesEmptyLine(buf, q) ==
  IF q = <<>> THEN [buf |-> buf, rest |-> q, line |-> FALSE]
  ELSE IF Head(q) \in {"\r", "\n"}
    THEN [buf |-> buf, rest |-> Tail(q), line |-> TRUE]
  ELSE IF Len(buf) < InbufSize - 1
    THEN MutReadBytesEmptyLine(Append(buf, Head(q)), Tail(q))
  ELSE MutReadBytesEmptyLine(buf, Tail(q))

\* The while loop of loop() up to its next dispatch: the bytes read are
\* stored in inbuf (dropped when it is full) until a CR or LF ends a
\* non-empty line.  buf is inbuf, q the bytes waiting.
RECURSIVE ReadBytes(_, _)
ReadBytes(buf, q) ==
  IF q = <<>> THEN [buf |-> buf, rest |-> q, line |-> FALSE]
  ELSE IF Head(q) \in {"\r", "\n"}
    THEN IF Len(buf) > 0
           THEN [buf |-> buf, rest |-> Tail(q), line |-> TRUE]
           ELSE ReadBytes(buf, Tail(q))
  ELSE IF Len(buf) < InbufSize - 1
    THEN ReadBytes(Append(buf, Head(q)), Tail(q))
  ELSE ReadBytes(buf, Tail(q))

\* The state process_command works on
Machine ==
  [axis |-> axis, step_pin |-> step_pin, dir_pin |-> dir_pin, en_pin |-> en_pin,
   motors_enabled |-> motors_enabled, abort_steps |-> abort_steps, pid |-> pid,
   fan_manual |-> fan_manual, autocool_thresh |-> autocool_thresh,
   servo |-> servo, micros |-> micros, millis |-> millis,
   level_low |-> lvl_low, level_high |-> lvl_high, level_alert |-> lvl_alert,
   tx |-> tx, ev |-> NoEvent]

\* loop(): a completed line is read and dispatched; the loop goes on reading
SerialDispatch ==
  /\ pc = "serial"
  /\ \E r \in {ReadBytes(inbuf, rx)} :
         /\ r.line
         /\ rx' = r.rest
         /\ inbuf' = <<>>
         /\ \E m \in {process_command(Machine, CStr(r.buf))} :
                /\ axis' = m.axis
                /\ step_pin' = m.step_pin
                /\ dir_pin' = m.dir_pin
                /\ en_pin' = m.en_pin
                /\ motors_enabled' = m.motors_enabled
                /\ abort_steps' = m.abort_steps
                /\ pid' = m.pid
                /\ fan_manual' = m.fan_manual
                /\ autocool_thresh' = m.autocool_thresh
                /\ servo' = m.servo
                /\ micros' = m.micros
                /\ millis' = m.millis
                /\ tx' = m.tx
                /\ owed' = IF m.ev.tag = "start"
                             THEN [owed EXCEPT ![m.ev.ax] = m.axis[m.ev.ax].remaining]
                           ELSE IF m.ev.tag = "off" THEN [i \in Axes |-> 0]
                           ELSE owed
                /\ halted' = IF m.ev.tag = "start" THEN "no"
                             ELSE IF m.ev.tag = "off" THEN "off" ELSE halted
                /\ after_off' = IF m.ev.tag = "start"
                                  THEN [after_off EXCEPT ![m.ev.ax] = abort_steps]
                                ELSE IF m.ev.tag = "off"
                                  THEN [i \in Axes |-> FALSE]
                                ELSE after_off
                /\ since_rise' = [i \in Axes |->
                                    IF m.ev.tag = "start" /\ m.ev.ax = i
                                      THEN SinceCap
                                      ELSE Later(since_rise[i],
                                                 (m.micros - micros) % UsMod)]
                /\ since_req' = LaterMs(since_req, (m.millis - millis) % MsMod)
                /\ since_read' = LaterMs(since_read, (m.millis - millis) % MsMod)
         /\ cmd' = Norm(CStr(r.buf))
  /\ ndisp' = ndisp + 1
  /\ pc' = "serial"
  /\ UNCHANGED <<heat_pin, pwm, ds_vars, fan_pin, env_vars, nbuf>>

\* loop(): no completed line is waiting; the bytes read stay in inbuf and the
\* iteration ends
SerialIdle ==
  /\ pc = "serial"
  /\ \E r \in {ReadBytes(inbuf, rx)} :
         /\ ~r.line
         /\ inbuf' = r.buf
         /\ rx' = <<>>
  /\ pc' = "wait"
  /\ UNCHANGED <<motor_vars, pid_vars, ds_vars, fan_vars, tx, env_vars,
                 hist_vars, servo, micros, millis>>

\* The host sends one line, ended by LF, while the iteration's ticks run
Receive(L, n) ==
  /\ pc = "serial"
  /\ nbuf < n
  /\ \E line \in L : rx' = rx \o line \o <<"\n">>
  /\ nbuf' = nbuf + 1
  /\ UNCHANGED <<motor_vars, pid_vars, ds_vars, fan_vars, inbuf, tx, env_vars,
                 ndisp, owed, since_rise, halted, after_off, cmd, since_req,
                 since_read,
                 servo, micros, millis,
                 pc>>

\* The host sends bytes that do not end a line
ReceiveRaw(B, n) ==
  /\ pc = "serial"
  /\ nbuf < n
  /\ \E bytes \in B : rx' = rx \o bytes
  /\ nbuf' = nbuf + 1
  /\ UNCHANGED <<motor_vars, pid_vars, ds_vars, fan_vars, inbuf, tx, env_vars,
                 ndisp, owed, since_rise, halted, after_off, cmd, since_req,
                 since_read,
                 servo, micros, millis,
                 pc>>

\* The low-level float switch changes
SetLevel ==
  /\ pc = "serial"
  /\ lvl_low' = ~lvl_low
  /\ UNCHANGED <<motor_vars, pid_vars, ds_vars, fan_vars, io_vars,
                 hist_vars, servo, micros, millis, pc, lvl_high, lvl_alert>>

\* Any of the three float switches changes
SetInputs ==
  /\ pc = "serial"
  /\ \E lo \in BOOLEAN, hi \in BOOLEAN, al \in BOOLEAN :
       /\ <<lo, hi, al>> # <<lvl_low, lvl_high, lvl_alert>>
       /\ lvl_low' = lo
       /\ lvl_high' = hi
       /\ lvl_alert' = al
  /\ UNCHANGED <<motor_vars, pid_vars, ds_vars, fan_vars, io_vars,
                 hist_vars, servo, micros, millis, pc>>

\* ------------------------------------------------- specifications
\* One minimum pulse period between two iterations of loop()
CoarseUs == 2 * MIN_STEP_DELAY_US

\* Spec: the timing of one dosing axis.  The host doses with pump X and
\* switches the motors, one line at a time (it waits for each reply); the
\* iterations of loop() are 1 .. MaxElapseUs counts of micros apart.
LinesAxis == {L_PUMP_X_2, L_PUMP_X_NEG, L_MTR_OFF, L_MTR_ON}

Init == Boot

Next ==
  \/ Elapse(1 .. MaxElapseUs, {0})
  \/ Ds18Service({250})
  \/ StepperService
  \/ HeatersService
  \/ FanService
  \/ Receive(LinesAxis, 1)
  \/ SerialDispatch
  \/ SerialIdle

Spec == Init /\ [][Next]_vars

\* SpecCmd: the checks of the PUMP command.  Every form of the command, on
\* every axis, with the level input changing; one line at a time; the
\* iterations of loop() are one pulse period apart.
LinesCmd ==
  {L_PUMP_X_2, L_PUMP_X_ZERO, L_PUMP_Y_ZERO, L_PUMP_Z_ZERO, L_PUMP_E_ZERO,
   L_PUMP_E_1, L_PUMP_BAD_AXIS, L_PUMP_Q, L_PUMP_NO_ARGS, L_PUMP_X_TEXT,
   L_MTR_OFF, L_MTR_ON}

NextCmd ==
  \/ Elapse({CoarseUs}, {0})
  \/ Ds18Service({250})
  \/ StepperService
  \/ HeatersService
  \/ FanService
  \/ Receive(LinesCmd, 1)
  \/ SetLevel
  \/ SerialDispatch
  \/ SerialIdle

SpecCmd == Init /\ [][NextCmd]_vars

\* SpecBurst: the host does not wait for the replies; up to MaxRxLines lines
\* are received before loop() reads them.
LinesBurst == {L_PUMP_X_2, L_PUMP_X_ZERO, L_MTR_OFF, L_HELLO, L_BLANK}

NextBurst ==
  \/ Elapse({CoarseUs}, {0})
  \/ Ds18Service({250})
  \/ StepperService
  \/ HeatersService
  \/ FanService
  \/ Receive(LinesBurst, MaxRxLines)
  \/ SerialDispatch
  \/ SerialIdle

SpecBurst == Init /\ [][NextBurst]_vars

\* SpecFeed: a dosing motion and the blocking feed macro.
LinesFeed == {L_PUMP_X_2, L_SERVOFEED}

NextFeed ==
  \/ Elapse(1 .. MaxElapseUs, {0})
  \/ Ds18Service({250})
  \/ StepperService
  \/ HeatersService
  \/ FanService
  \/ Receive(LinesFeed, 1)
  \/ SerialDispatch
  \/ SerialIdle

SpecFeed == Init /\ [][NextFeed]_vars

\* SpecPid: the heaters.  The host sets targets and gains; the water probe
\* reads 25.9 C, 45.1 C (beyond the plausible range) or is disconnected;
\* millis runs, the iterations of loop() are 0 .. MaxElapseMs counts apart.
LinesPid ==
  {L_HEATW_26, L_HEATW_0, L_HEATW_NEG, L_PIDW}
ProbeValues == {259, 451, -1270}

NextPid ==
  \/ Elapse({0}, 0 .. MaxElapseMs)
  \/ Ds18Service(ProbeValues)
  \/ StepperService
  \/ HeatersService
  \/ FanService
  \/ Receive(LinesPid, 1)
  \/ SerialDispatch
  \/ SerialIdle

SpecPid == Init /\ [][NextPid]_vars

\* SpecLaw: the control law.  The water target is 26 C or off, the gains
\* are the defaults or rewritten by PIDW; the probe reads 20.0 C, 25.9 C
\* or 26.0 C, so that the error is large, small or zero and rises or falls
\* from one tick to the next.
LinesLaw == {L_HEATW_26, L_PIDW}
ProbeLaw == {200, 259, 260}

NextLaw ==
  \/ Elapse({0}, 0 .. MaxElapseMs)
  \/ Ds18Service(ProbeLaw)
  \/ StepperService
  \/ HeatersTick(MaxIntegLaw)
  \/ FanService
  \/ Receive(LinesLaw, 1)
  \/ SerialDispatch
  \/ SerialIdle

SpecLaw == Init /\ [][NextLaw]_vars

\* SpecText: the dispatcher's handling of the text.  The host sends tuning
\* lines, well formed and not, lines that name no command, a line of
\* spaces and a query, while the water channel regulates.
LinesText ==
  {L_PIDW, L_PIDR, L_PIDW_BAD, L_FOO, L_FOO_LOWER, L_BLANK, L_HELLO,
   L_HEATW_26}

NextText ==
  \/ Elapse({CoarseUs}, 0 .. MaxElapseMs)
  \/ Ds18Service({259})
  \/ StepperService
  \/ HeatersService
  \/ FanService
  \/ Receive(LinesText, 1)
  \/ SerialDispatch
  \/ SerialIdle

SpecText == Init /\ [][NextText]_vars

\* SpecClock: both counters run and overflow while pump X doses and the
\* probes are polled.
LinesClock == {L_PUMP_X_2}

NextClock ==
  \/ Elapse({1}, 0 .. MaxElapseMs)
  \/ Ds18Service({250})
  \/ StepperService
  \/ HeatersService
  \/ FanService
  \/ Receive(LinesClock, 1)
  \/ SerialDispatch
  \/ SerialIdle

SpecClock == Init /\ [][NextClock]_vars

\* SpecArgs: the host doses with pump X and sends half-periods of every
\* kind: within range, zero, and negative (-7 is 2^32 - 7 as an unsigned
\* long, here UsMod - 7).
LinesArgs == {L_PUMP_X_2, L_PUMP_X_NEG, L_PUMP_X_WRAP, L_PUMP_E_1}

NextArgs ==
  \/ Elapse({CoarseUs}, {0})
  \/ Ds18Service({250})
  \/ StepperService
  \/ HeatersService
  \/ FanService
  \/ Receive(LinesArgs, 1)
  \/ SerialDispatch
  \/ SerialIdle

SpecArgs == Init /\ [][NextArgs]_vars

\* SpecDs: the water probe returns values around both ends of the range the
\* firmware accepts, its power-on value 85 C and DEVICE_DISCONNECTED_C, while
\* the host polls the readings.
LinesDs == {L_TEMP, L_STATUS}
ProbeDs == {250, 850, 1249, 1250, -549, -550, -1270}

NextDs ==
  \/ Elapse({0}, 0 .. MaxElapseMs)
  \/ Ds18Service(ProbeDs)
  \/ StepperService
  \/ HeatersService
  \/ FanService
  \/ Receive(LinesDs, 1)
  \/ SerialDispatch
  \/ SerialIdle

SpecDs == Init /\ [][NextDs]_vars

\* SpecFan: the air probe returns values below, inside and above the 5 C
\* band over both thresholds the host sets (28 C after setup, 22 C), and
\* DEVICE_DISCONNECTED_C, while the host switches between manual levels and
\* the automatic mode.
RawAir(a) == [i \in Probes |-> IF i = 1 THEN a ELSE 250]
AirValues == {-1270, 220, 221, 245, 269, 270, 280, 285, 330, 400}
LinesFan == {L_FAN_128, L_FAN_300, L_FAN_AUTO, L_AUTOCOOL_22}

NextFan ==
  \/ Elapse({0}, 0 .. MaxElapseMs)
  \/ Ds18Tick({RawAir(a) : a \in AirValues})
  \/ StepperService
  \/ HeatersService
  \/ FanService
  \/ Receive(LinesFan, 1)
  \/ SerialDispatch
  \/ SerialIdle

SpecFan == Init /\ [][NextFan]_vars

\* SpecBuf: the host sends bytes without a terminator that fill inbuf over
\* two iterations and more, terminators alone, a command, and a command
\* followed by a byte 0 and one more byte.
Pad(n, c) == [k \in 1 .. n |-> c]
L_EMPTY == <<>>
L_HELLO_NUL == L_HELLO \o <<NUL, "Z">>
B_JUNK == Pad(60, "A")
LinesBuf == {L_EMPTY, L_HELLO, L_HELLO_NUL}

NextBuf ==
  \/ Elapse({CoarseUs}, {0})
  \/ Ds18Service({250})
  \/ StepperService
  \/ HeatersService
  \/ FanService
  \/ Receive(LinesBuf, 1)
  \/ ReceiveRaw({B_JUNK}, 1)
  \/ SerialDispatch
  \/ SerialIdle

SpecBuf == Init /\ [][NextBuf]_vars

\* SpecFrame: the host ends its lines with CR LF, sends terminators alone,
\* terminators before a line, two lines before one drain, and the first
\* bytes of a line one iteration before the rest.
L_HELLO_CR == L_HELLO \o <<"\r">>
L_CRLF_FOO == <<"\r", "\n", "\n">> \o L_FOO
B_PART == <<"F", "O">>
LinesFrame == {L_EMPTY, L_HELLO_CR, L_CRLF_FOO}

NextFrame ==
  \/ Elapse({CoarseUs}, {0})
  \/ Ds18Service({250})
  \/ StepperService
  \/ HeatersService
  \/ FanService
  \/ Receive(LinesFrame, MaxRxLines)
  \/ ReceiveRaw({B_PART}, MaxRxLines)
  \/ SerialDispatch
  \/ SerialIdle

SpecFrame == Init /\ [][NextFrame]_vars

\* SpecLoop: all the services have work: pump X doses, the water channel
\* regulates on a probe that is at times disconnected, and the fan is in
\* the automatic mode.  The iterations are one count of millis apart.
LinesLoop == {L_PUMP_X_2, L_HEATW_26}
ProbeLoop == {259, -1270}

NextLoop ==
  \/ Elapse({CoarseUs}, {1})
  \/ Ds18Service(ProbeLoop)
  \/ StepperService
  \/ HeatersService
  \/ FanService
  \/ Receive(LinesLoop, 1)
  \/ SerialDispatch
  \/ SerialIdle

SpecLoop == Init /\ [][NextLoop]_vars

\* SpecZero: the host sends every command that takes a number with a text
\* that is not a number, and commands that set the same state to other
\* values.  ZeroPairs pairs each such line with the line that carries 0.
ZeroPairs ==
  {<<L_FAN_ABC, L_FAN_0>>, <<L_AUTOCOOL_ABC, L_AUTOCOOL_0>>,
   <<L_HEATW_ABC, L_HEATW_0>>, <<L_HEATR_ABC, L_HEATR_0>>,
   <<L_SERVO_ABC, L_SERVO_0>>, <<L_PUMP_X_TEXT, L_PUMP_X_0_5>>,
   <<L_PUMP_X_2_TEXT, L_PUMP_X_2_0>>, <<L_PIDW_ABC, L_PIDW_0>>}
LinesZero ==
  {pr[1] : pr \in ZeroPairs}
    \cup {L_HEATW_26}

NextZero ==
  \/ Elapse({CoarseUs}, {0})
  \/ Ds18Service({250})
  \/ StepperService
  \/ HeatersService
  \/ FanService
  \/ Receive(LinesZero, 1)
  \/ SerialDispatch
  \/ SerialIdle

\* loop() is entered again whenever it returns, and each of its steps is
\* taken: the ticks in their order, then the reading of the bytes received,
\* dispatch after dispatch, until none is left
LoopRuns ==
  \/ pc = "wait" /\ pc' = "ds18" /\ ndisp' = 0
  \/ pc = "ds18" /\ pc' = "stepper" /\ ndisp' = ndisp
  \/ pc = "stepper" /\ pc' = "heaters" /\ ndisp' = ndisp
  \/ pc = "heaters" /\ pc' = "fan" /\ ndisp' = ndisp
  \/ pc = "fan" /\ pc' = "serial" /\ ndisp' = ndisp
  \/ pc = "serial" /\ pc' = "wait" /\ ndisp' = ndisp
  \/ pc = "serial" /\ pc' = "serial" /\ ndisp' = ndisp + 1

SpecZero == Init /\ [][NextZero]_vars /\ WF_<<pc, ndisp>>(LoopRuns)

\* SpecDt: the time step of the control law.  The iterations of loop()
\* are exactly MaxElapseMs counts apart, so every PID tick comes that long
\* after the preceding one; the water target is set to 26 C and the probe
\* reads 25.9 C or is disconnected.
LinesDt == {L_HEATW_26}
ProbeDt == {259, -1270}

NextDt ==
  \/ Elapse({0}, {MaxElapseMs})
  \/ Ds18Service(ProbeDt)
  \/ StepperService
  \/ HeatersTick(MaxIntegLaw)
  \/ FanService
  \/ Receive(LinesDt, 1)
  \/ SerialDispatch
  \/ SerialIdle

SpecDt == Init /\ [][NextDt]_vars

\* SpecSet: the setpoint commands.  The host sends values inside, below
\* and above every range, and a negative fan level beyond the range of int.
LinesSet ==
  {L_FAN_300, L_FAN_AUTO, L_FAN_NEG_WIDE, L_AUTOCOOL_22, L_AUTOCOOL_99,
   L_HEATW_26, L_HEATW_99, L_HEATW_NEG, L_HEATR_99, L_SERVO_200, L_SERVO_NEG}

NextSet ==
  \/ Elapse({CoarseUs}, {0})
  \/ Ds18Service({250})
  \/ StepperService
  \/ HeatersService
  \/ FanService
  \/ Receive(LinesSet, 1)
  \/ SerialDispatch
  \/ SerialIdle

SpecSet == Init /\ [][NextSet]_vars

\* SpecLevel: the three float switches change at any time while pump X
\* doses; the host starts the pump, stops the motors and asks for the levels.
LinesLevel == {L_PUMP_X_2, L_MTR_OFF, L_LEVEL}

NextLevel ==
  \/ Elapse({CoarseUs}, {0})
  \/ Ds18Service({250})
  \/ StepperService
  \/ HeatersService
  \/ FanService
  \/ Receive(LinesLevel, 1)
  \/ SetInputs
  \/ SerialDispatch
  \/ SerialIdle

SpecLevel == Init /\ [][NextLevel]_vars

\* SpecRes: the reserve heater.  The host sets its target and its gains;
\* the water probe reads 25.9 C or is disconnected; millis runs.
LinesRes == {L_HEATR_99, L_HEATR_0, L_PIDR}
ProbeRes == {259, -1270}

NextRes ==
  \/ Elapse({0}, 0 .. MaxElapseMs)
  \/ Ds18Service(ProbeRes)
  \/ StepperService
  \/ HeatersService
  \/ FanService
  \/ Receive(LinesRes, 1)
  \/ SerialDispatch
  \/ SerialIdle

SpecRes == Init /\ [][NextRes]_vars

\* ============================================================ claims
\* What the properties read off a step or a state
Dispatching == ndisp' = ndisp + 1          \* the step is a SerialDispatch
Line == Norm(CStr(ReadBytes(inbuf, rx).buf))   \* the line it dispatches
LastReply == IF tx = <<>> THEN Reply("", "", <<>>) ELSE tx[Len(tx)]
NewReply == tx' = Append(tx, LastReply')   \* the step printed one reply line

\* A number as the host writes it: an optional minus sign and digits
IsNumber(w) ==
  LET d == IF w # <<>> /\ Head(w) = "-" THEN Tail(w) ELSE w
  IN  d # <<>> /\ \A k \in 1 .. Len(d) : IsDigit(d[k])

\* s is "PUMP <axis> <steps> <us>" with an axis letter and two numbers
WellFormedPump(s) ==
  /\ Len(s) >= 10
  /\ SubSeq(s, 1, 5) = S_PUMP
  /\ s[6] \in {"X", "Y", "Z", "E"}
  /\ s[7] = " "
  /\ \E k \in 9 .. Len(s) - 1 :
       /\ s[k] = " "
       /\ IsNumber(SubSeq(s, 8, k - 1))
       /\ IsNumber(SubSeq(s, k + 1, Len(s)))
PumpAxis(s) == CHOOSE i \in Axes : <<"X", "Y", "Z", "E">>[i + 1] = s[6]
PumpSteps(s) == ToInt(SubSeq(s, 8, Len(s)))

\* C1 as claimed: at most one command is dispatched in one iteration of
\* loop().
C1_AtMostOnePerIteration == ndisp <= 1

\* C2: an accepted PUMP of N steps keeps the axis active until exactly |N|
\* rising edges have occurred on its step line: while the axis is active
\* edges are still owed, and once it is inactive (without MTR OFF) none is.
C2_ExactPulseCount ==
  \A i \in Axes : IF axis[i].active THEN owed[i] > 0 ELSE owed[i] = 0

\* C3: within one motion two consecutive rising edges are at least the pulse
\* period (twice the half-period) apart.
C3_MinEdgeSpacing ==
  [][\A i \in Axes :
       pc = "stepper" /\ owed'[i] = owed[i] - 1
         => since_rise[i] >= axis[i].period2_us]_vars

\* C4: after MTR OFF, from the end of the next stepper tick on, all axes
\* are inactive and all step lines are low until a PUMP is accepted, and the
\* drivers are disabled until the motors are switched on again; no rising
\* edge is emitted between MTR OFF and the next accepted PUMP.
C4_MtrOffStops ==
  /\ halted = "ticked" =>
       \A i \in Axes :
         /\ ~axis[i].active
         /\ ~step_pin[i]
         /\ abort_steps => en_pin[i] /\ ~motors_enabled
  /\ halted # "no" => \A i \in Axes : owed[i] = 0

\* C4 witness: the tick after an MTR OFF that cut a motion with steps left.
C4_Witness ==
  /\ halted = "ticked" /\ pc = "heaters" /\ abort_steps
  /\ axis[0].remaining > 0

\* C5: a line starting with "PUMP " dispatched while the low-level input is
\* asserted replies ERR|PUMP_LEVEL whatever follows, and leaves the axis
\* channels, the step, direction and enable lines, the motor-enable flag and
\* the abort flag unchanged.
C5_LevelBlocksPump ==
  [][Dispatching /\ StartsWith(Line, S_PUMP) /\ lvl_low
       => /\ NewReply
          /\ LastReply' = ReplyErr("PUMP_LEVEL")
          /\ UNCHANGED motor_vars]_vars

\* C5 witness: a PUMP naming no axis was refused for the level while a
\* motion was in flight.
C5_Witness ==
  /\ cmd = Norm(L_PUMP_BAD_AXIS) /\ LastReply = ReplyErr("PUMP_LEVEL")
  /\ lvl_low /\ axis[0].active

\* C6 as claimed: while an axis is active and the level input is clear,
\* every well-formed PUMP naming it replies ERR|PUMP_BUSY and leaves the
\* motion unchanged.
C6_BusyForEveryPump ==
  [][Dispatching /\ ~lvl_low /\ WellFormedPump(Line)
       /\ axis[PumpAxis(Line)].active
       => /\ NewReply
          /\ LastReply' = ReplyErr("PUMP_BUSY")
          /\ axis' = axis]_vars

\* C6, amended: while an axis is active and the level input is clear, a
\* well-formed PUMP naming it replies ERR|PUMP_BUSY when its step count is
\* not zero and OK when it is zero, and in both cases leaves the motion
\* (direction, remaining count, period, deadlines) unchanged.
C6_BusyUnlessZeroSteps ==
  [][Dispatching /\ ~lvl_low /\ WellFormedPump(Line)
       /\ axis[PumpAxis(Line)].active
       => /\ NewReply
          /\ LastReply' = IF PumpSteps(Line) = 0 THEN ReplyOk
                          ELSE ReplyErr("PUMP_BUSY")
          /\ axis' = axis]_vars

\* C6 witness: PUMP X 2 2 was refused as busy, the motion of X still running.
C6_Witness ==
  /\ cmd = Norm(L_PUMP_X_2) /\ LastReply = ReplyErr("PUMP_BUSY")
  /\ axis[0].active /\ pc = "serial"

\* The line is PUMP <axis> 0 <us>
ZeroPump(s) == WellFormedPump(s) /\ s[8] = "0" /\ s[9] = " "

\* C7 as claimed: PUMP <axis> 0 <us> replies OK and the axis is inactive
\* after it, in every state.
C7_ZeroStepsIdleAlways ==
  [][Dispatching /\ ZeroPump(Line)
       => /\ NewReply
          /\ LastReply' = ReplyOk
          /\ ~axis'[PumpAxis(Line)].active]_vars

\* C7, amended: with the level input clear, PUMP <axis> 0 <us> replies OK
\* and leaves every axis channel as it was, so the axis is inactive after
\* it if it was inactive before it; with the level input asserted it
\* replies ERR|PUMP_LEVEL.
C7_ZeroStepsNoOp ==
  [][Dispatching /\ ZeroPump(Line)
       => /\ NewReply
          /\ LastReply' = IF lvl_low THEN ReplyErr("PUMP_LEVEL") ELSE ReplyOk
          /\ UNCHANGED motor_vars]_vars

\* C7 witness: PUMP E 0 9 was answered OK with axis E idle.
C7_Witness ==
  /\ cmd = Norm(L_PUMP_E_ZERO) /\ LastReply = ReplyOk
  /\ ~axis[3].active /\ pc = "serial"

\* What the channel's sensor function returns (tenths): the water channel
\* reads the cached value of probe 0, the reserve channel has no sensor
Reading(ch) == IF ch = "water" THEN cached_ds[0] ELSE NaN

\* The reading is the invalid sentinel or outside [minValid - 1, maxValid + 5]
Unusable(ch) ==
  \/ Reading(ch) = NaN
  \/ Reading(ch) < pid[ch].minC - 10
  \/ Reading(ch) > pid[ch].maxC + 50

PidTick == pc = "heaters" /\ pc' = "fan"     \* the step is heaters_service

\* C8: a PID tick of a channel whose reading is invalid or out of range sets
\* the fault flag, yields output 0 and drives the heater off in that tick,
\* and leaves the integral, the previous error and the time of the last
\* tick unchanged.
C8_BadReadingFaults ==
  [][PidTick =>
       \A ch \in Channels :
         Unusable(ch) =>
           /\ pid'[ch].fault
           /\ pwm'[ch] = 0 /\ heat_pin'[ch] = 0
           /\ pid'[ch].integ = pid[ch].integ
           /\ pid'[ch].prevE = pid[ch].prevE
           /\ pid'[ch].last_ms = pid[ch].last_ms]_vars

\* C8 witness: the water channel, regulating with a non-zero integral, has
\* just ticked on a reading of 45.1 C and faulted.
C8_Witness ==
  /\ pc = "fan" /\ cached_ds[0] = 451
  /\ pid["water"].fault /\ pid["water"].target > 0
  /\ pid["water"].integ # 0 /\ pid["water"].last_ms # 0
  /\ heat_pin["water"] = 0

\* C9: the fault flag of a channel rises only in a tick whose reading is
\* invalid or out of range and falls only in a tick whose reading is valid;
\* no command changes it, and a tick on a valid reading clears it.
C9_FaultFollowsReadings ==
  [][\A ch \in Channels :
       /\ ~pid[ch].fault /\ pid'[ch].fault => PidTick /\ Unusable(ch)
       /\ pid[ch].fault /\ ~pid'[ch].fault => PidTick /\ ~Unusable(ch)
       /\ PidTick /\ ~Unusable(ch) => ~pid'[ch].fault]_vars

\* C10: in every state a channel with target <= 0 has integral 0 and
\* previous error 0, and every tick of such a channel yields output 0 and
\* drives its heater off, whatever the sensor reads.
C10_IdleChannelIsZero ==
  /\ [](\A ch \in Channels :
          pid[ch].target <= 0 => pid[ch].integ = 0 /\ pid[ch].prevE = 0)
  /\ [][PidTick =>
          \A ch \in Channels :
            pid[ch].target <= 0 => pwm'[ch] = 0 /\ heat_pin'[ch] = 0]_vars

\* C10 witness: HEATW with a value <= 0 has just been answered while the
\* water heater was on.
C10_Witness ==
  /\ pc = "serial" /\ cmd \in {Norm(L_HEATW_0), Norm(L_HEATW_NEG)}
  /\ pid["water"].target = 0 /\ pid["water"].integ = 0
  /\ heat_pin["water"] = 255

\* C11: every PID tick returns an integer within [0, 255], for any gains,
\* target, readings and tick timing, also while the integral grows under a
\* constant positive error and when two ticks fall in the same millisecond.
C11_OutputInRange == \A ch \in Channels : pwm[ch] \in 0 .. 255

\* C11 witness: the water channel has ticked twice or more on a large
\* positive error, the integral has grown and the law is cut at 255.
C11_Witness ==
  /\ pc = "fan" /\ pwm["water"] = 255
  /\ pid["water"].prevE = 60 /\ pid["water"].integ >= 60
  /\ pid["water"].last_ms # 0

\* The channel regulates in this tick: its reading is usable and it has a
\* target
Regulating(ch) == ~Unusable(ch) /\ pid[ch].target > 0

\* The value of Kp*error + Ki*integral + Kd*derivative in this tick, as a
\* fraction
LawValue(ch) ==
  LET p == pid[ch]
      dt == IF p.last_ms = 0 THEN DefaultDt
            ELSE DtPerCount * ((millis - p.last_ms) % MsMod)
      err == p.target - Reading(ch)
      integ == p.integ + err * dt
  IN  [num |-> LawNum(p, err, integ, dt), den |-> LawDen(dt)]

RawLine == ReadBytes(inbuf, rx).buf

\* The tuning commands and their channels
TuneVerb(ch) == IF ch = "water" THEN S_PIDW ELSE S_PIDR
TuneCode(ch) == IF ch = "water" THEN "PIDW" ELSE "PIDR"

\* C13: PIDW P1I2D3 sets the gains of the primary channel to (1, 2, 3),
\* resets its integral and previous error and replies OK; PIDR P1I2D3 does
\* the same for the secondary channel.
C13_TuningSetsGains ==
  [][\A ch \in Channels :
       Dispatching /\ RawLine = TuneVerb(ch) \o <<"P","1","I","2","D","3">>
         => /\ NewReply /\ LastReply' = ReplyOk
            /\ pid'[ch].Kp = 10 /\ pid'[ch].Ki = 20 /\ pid'[ch].Kd = 30
            /\ pid'[ch].integ = 0 /\ pid'[ch].prevE = 0]_vars

\* The text w holds the markers P, I and D in that order
HasMarkers(w) ==
  \E p, i, d \in 1 .. Len(w) :
    p < i /\ i < d /\ w[p] = "P" /\ w[i] = "I" /\ w[d] = "D"

\* C14: a PIDW or PIDR line whose argument does not hold the markers P, I
\* and D in that order replies ERR|PIDW or ERR|PIDR and leaves the gains
\* and the integrator state of the channel unchanged.
C14_MalformedTuningRefused ==
  [][\A ch \in Channels :
       Dispatching /\ StartsWith(RawLine, TuneVerb(ch))
         /\ ~HasMarkers(SubSeq(RawLine, 6, Len(RawLine)))
         => /\ NewReply /\ LastReply' = ReplyErr(TuneCode(ch))
            /\ pid'[ch] = pid[ch]]_vars

\* The trimmed, upper-cased line s is one of the commands
MatchesVerb(s) ==
  \/ s \in {S_HELLO, S_STATUS, S_TEMP, S_PH, S_LEVEL, S_MTR_ON, S_MTR_OFF}
  \/ \E v \in {S_FAN, S_AUTOCOOL, S_HEATW, S_HEATR, S_PIDW, S_PIDR, S_SERVO,
                S_PUMP, S_SERVOFEED} : StartsWith(s, v)

\* The step dispatches a line that is not empty and names no command
DispatchingUnknown ==
  /\ Dispatching
  /\ ToUpperCase(Trim(RawLine)) # <<>>
  /\ ~MatchesVerb(ToUpperCase(Trim(RawLine)))

C16_OneReplyPerLine ==
  [][Dispatching => Len(tx') = Len(tx) + 1]_vars

\* C17: every deadline test of the tick services is wraparound-safe: a
\* deadline counts as passed exactly when the counter minus the deadline,
\* taken modulo the counter range, is less than half the range.  Checked at
\* the sensor tick for the next-request and the ready deadline, and at the
\* stepper tick for the low-edge and the high-edge deadline of every active
\* axis.
RequestStep == ~ds18_pending /\ ds18_pending'
ReadStep == ds18_pending /\ ~ds18_pending'
HighActed(i) ==
  axis'[i].remaining # axis[i].remaining \/ ~axis'[i].active
C17_DeadlinesWrapSafe ==
  [][/\ (pc = "ds18" /\ ~ds18_pending)
          => (RequestStep <=> SignedGE(millis, ds18_next_request_ms, MsMod))
     /\ (pc = "ds18" /\ ds18_pending)
          => (ReadStep <=> SignedGE(millis, ds18_ready_ms, MsMod))
     /\ pc = "stepper"
          => \A i \in Axes :
               axis[i].active
                 => /\ HighActed(i)
                         <=> SignedGE(micros, axis[i].next_step_us, UsMod)
                    /\ (axis[i].pending_low /\ ~HighActed(i))
                         => (~axis'[i].pending_low
                               <=> SignedGE(micros, axis[i].low_deadline_us,
                                            UsMod))]_vars

\* C18: in every state the stored pulse period of every axis is at least
\* twice the minimum half-period, whatever half-period the PUMP commands
\* carried.
C18_PeriodAtLeastMin ==
  \A i \in Axes : axis[i].period2_us >= 2 * MIN_STEP_DELAY_US

\* C19: in every state each of the four cached readings is either the
\* invalid sentinel or strictly between -55 C and 125 C, and while the host
\* polls probes that fail no reply is a protocol error.
C19_CacheValidOrSentinel ==
  /\ \A i \in Probes :
        cached_ds[i] = NaN \/ (cached_ds[i] > -550 /\ cached_ds[i] < 1250)
  /\ \A k \in 1 .. Len(tx) : tx[k].kind # "ERR"

\* The water probe was read out of range while the others were read in
\* range, the water channel is degraded, and the host's TEMP? is answered
\* with the readings.
C19_Witness ==
  /\ cached_ds[0] = NaN /\ cached_ds[1] = 250
  /\ pid["water"].fault
  /\ cmd = L_TEMP /\ LastReply.kind = "TEMPS"

\* C20: the sensor state machine alternates requesting and waiting.  The
\* cache changes only in a read of the sensor tick, a read comes only while
\* a request is pending and at least 800 ms after that request, it reads
\* all four probes, and a request is issued only by the sensor tick, while
\* none is pending, and at least 500 ms after the previous read.
C20_RequestThenRead ==
  [][/\ (cached_ds' # cached_ds \/ ds18_pending' # ds18_pending)
          => pc = "ds18"
     /\ cached_ds' # cached_ds => ReadStep
     /\ ReadStep => /\ since_req >= ConvWaitMs
                    /\ \A i \in Probes \ {0} : cached_ds'[i] = Raw(250)[i]
     /\ RequestStep => since_read >= NextReqMs]_vars

\* C21: after every fan tick, with a manual level set the output is that
\* level whatever the air reading; otherwise the output is 0 when the air
\* reading is invalid or not above the threshold, and else the part
\* (T - threshold) / 5 C of 255, rounded down and cut at 255: within
\* 0 .. 255, 255 from threshold + 5 C on, and not above the output for any
\* warmer air.
FanTick == pc = "fan" /\ pc' = "serial"
AirT == cached_ds[1]
PumpLine(s) ==
  /\ Len(s) >= 6
  /\ SubSeq(s, 1, 5) = S_PUMP
  /\ s[6] \in {"X", "Y", "Z", "E"}
\* The separators after the axis letter
Separators(s) == {k \in 7 .. Len(s) : s[k] = " "}
\* The steps or the half-period argument is missing
ArgsMissing(s) == Cardinality(Separators(s)) < 2
\* Both arguments are there and one of them is not a number
ArgsUnparsable(s) ==
  /\ ~ArgsMissing(s)
  /\ LET k1 == CHOOSE k \in Separators(s) : \A j \in Separators(s) : k <= j
         k2 == CHOOSE k \in Separators(s) \ {k1} :
                 \A j \in Separators(s) \ {k1} : k <= j
     IN  \/ ~IsNumber(SubSeq(s, k1 + 1, k2 - 1))
         \/ ~IsNumber(SubSeq(s, k2 + 1, Len(s)))

\* C22 as claimed: with the level input clear and a valid axis, a PUMP whose
\* steps or half-period argument is missing or is not a number replies
\* ERR|PUMP_ARGS and starts no motion.
C22_BadArgsRefused ==
  [][(Dispatching /\ ~lvl_low /\ PumpLine(Line)
        /\ (ArgsMissing(Line) \/ ArgsUnparsable(Line)))
       => /\ NewReply
          /\ LastReply' = ReplyErr("PUMP_ARGS")
          /\ axis' = axis]_vars

\* C22, amended: with the level input clear and a valid axis, a PUMP whose
\* steps or half-period argument is missing replies ERR|PUMP_ARGS and starts
\* no motion; an argument that is there but is not a number is not refused
\* with ERR|PUMP_ARGS.
C22_MissingArgsRefused ==
  [][(Dispatching /\ ~lvl_low /\ PumpLine(Line))
       => /\ ArgsMissing(Line)
               => /\ NewReply
                  /\ LastReply' = ReplyErr("PUMP_ARGS")
                  /\ axis' = axis
          /\ ArgsUnparsable(Line)
               => /\ NewReply
                  /\ LastReply' # ReplyErr("PUMP_ARGS")]_vars

\* PUMP X 1 was refused for its missing half-period
C22_Witness ==
  /\ pc = "serial" /\ ndisp = 1
  /\ cmd = L_PUMP_NO_ARGS /\ LastReply = ReplyErr("PUMP_ARGS")

\* C23: for every command that takes a number, in every state, the line
\* whose number is a text that is not a number has the same effect and the
\* same reply as the line that carries 0; and whatever the host has sent,
\* loop() goes on: the ticks of a next iteration run again and again.
C23_UnparsableIsZero ==
  /\ [](\A pr \in ZeroPairs :
          process_command(Machine, pr[1]) = process_command(Machine, pr[2]))
  /\ []<>(pc = "ds18") /\ []<>(pc = "serial")

\* FAN abc was dispatched while the fan was in the automatic mode: the
\* manual level is 0 and the reply OK
C23_Witness ==
  /\ pc = "serial" /\ ndisp = 1 /\ cmd = Norm(L_FAN_ABC)
  /\ fan_manual = 0
  /\ LastReply = ReplyOk

\* C24: SERVOFEED is one blocking step of four waits (open, wait, close,
\* wait, twice): it prints its single OK, leaves the actuator closed, and
\* during it no tick runs and no other command is dispatched, so that the
\* step lines, the axis channels, the sensor cache, the PID channels and the
\* heater and fan outputs are as before.
FeedLine(s) == StartsWith(s, S_SERVOFEED)
C24_FeedBlocks ==
  [][(Dispatching /\ FeedLine(Line))
       => /\ NewReply /\ LastReply' = ReplyOk
          /\ servo' = 10
          /\ millis' = (millis + 4 * FeedPauseMs) % MsMod
          /\ micros' = (micros + 4 * FeedPauseUs) % UsMod
          /\ pc' = "serial" /\ ndisp' = ndisp + 1
          /\ UNCHANGED <<axis, step_pin, dir_pin, en_pin, motors_enabled,
                         abort_steps, pid_vars, ds_vars, fan_vars>>]_vars

\* SERVOFEED was answered while pump X was dosing, with a rising edge of its
\* step line overdue
C24_Witness ==
  /\ pc = "serial" /\ ndisp = 1 /\ cmd = L_SERVOFEED
  /\ LastReply = ReplyOk /\ servo = 10
  /\ axis[0].active /\ SignedGE(micros, axis[0].next_step_us, UsMod)

\* C25: every iteration of loop() runs the sensor tick, the axis ticks, the
\* PID ticks and the fan tick in this order and only then reads the input
\* and dispatches: the cache is written by the sensor tick only, step lines
\* rise in the axis ticks only, the heater outputs change in the PID ticks
\* only and the fan output in the fan tick only, commands are dispatched
\* and replies printed after the fan tick only, and the PID and fan ticks
\* work on the cache as the sensor tick of their iteration left it.
LoopOrder ==
  {<<"wait", "ds18">>, <<"ds18", "stepper">>, <<"stepper", "heaters">>,
   <<"heaters", "fan">>, <<"fan", "serial">>, <<"serial", "wait">>}
C25_TickOrder ==
  [][/\ pc' # pc => <<pc, pc'>> \in LoopOrder
     /\ (ReadStep \/ RequestStep \/ cached_ds' # cached_ds)
          => pc = "ds18" /\ pc' = "stepper"
     /\ (\E i \in Axes : step_pin'[i] /\ ~step_pin[i])
          => pc = "stepper" /\ pc' = "heaters"
     /\ (pwm' # pwm \/ heat_pin' # heat_pin) => PidTick
     /\ fan_pin' # fan_pin => FanTick
     /\ (Dispatching \/ Len(tx') > Len(tx)) => pc = "serial" /\ pc' = "serial"
     /\ PidTick => \A ch \in Channels :
                     Unusable(ch) => pid'[ch].fault /\ heat_pin'[ch] = 0
     /\ (FanTick /\ (AirT = NaN \/ AirT <= autocool_thresh)) => fan_pin' = 0]_vars

\* The PID tick has run on a reading the sensor tick stored in the same
\* iteration: the water probe was read as disconnected 0 counts ago, the
\* channel was regulating and is faulted
C25_Witness ==
  /\ pc = "fan" /\ since_read = 0
  /\ cached_ds[0] = NaN /\ cached_ds[1] = 250
  /\ pid["water"].target > 0 /\ pid["water"].fault /\ heat_pin["water"] = 0

\* The bytes of the line being received: those in inbuf and those waiting,
\* without the terminators that end no line
RECURSIVE SkipEol(_)
SkipEol(s) ==
  IF s # <<>> /\ Head(s) \in {"\r", "\n"} THEN SkipEol(Tail(s)) ELSE s
Pending == IF inbuf = <<>> THEN SkipEol(rx) ELSE inbuf \o rx
\* Its bytes before the terminator, all of them if none has come
Eols(s) == {k \in 1 .. Len(s) : s[k] \in {"\r", "\n"}}
Unterminated(s) ==
  IF Eols(s) = {} THEN s
  ELSE SubSeq(s, 1, (CHOOSE k \in Eols(s) : \A j \in Eols(s) : k <= j) - 1)
Take(s, n) == IF Len(s) <= n THEN s ELSE SubSeq(s, 1, n)
IdleStep == pc = "serial" /\ pc' = "wait"

\* C26 as claimed: the index of inbuf never exceeds 95; the bytes of a line
\* beyond the first 95 are dropped without a reply; the first 95 bytes are
\* kept, and they are the command dispatched when the terminator arrives;
\* the index is 0 after each dispatch.
C26_First95Dispatched ==
  [][/\ Len(inbuf') <= InbufSize - 1
     /\ IdleStep => /\ inbuf' = Take(Unterminated(Pending), InbufSize - 1)
                    /\ tx' = tx
     /\ Dispatching
          => /\ cmd' = Norm(Take(Unterminated(Pending), InbufSize - 1))
             /\ inbuf' = <<>>]_vars

\* What a step does to one axis channel
RisingEdge(i) == pc = "stepper" /\ owed'[i] = owed[i] - 1
MotionOf(a) == <<a.remaining, a.dir, a.period2_us>>

\* C27: while an axis is active its remaining count never increases and its
\* direction and period never change; the count changes only by a decrement
\* of exactly 1, which comes with a rising edge of its step line, and every
\* rising edge comes with that decrement; the count, direction and period
\* of an inactive axis are written only by the dispatch of a PUMP line, and
\* no dispatch writes those of an active axis.
C27_OnlyEdgesDecrement ==
  [][\A i \in Axes :
       /\ axis[i].active =>
            /\ axis'[i].remaining <= axis[i].remaining
            /\ axis'[i].dir = axis[i].dir
            /\ axis'[i].period2_us = axis[i].period2_us
            /\ axis'[i].remaining # axis[i].remaining
                 => axis'[i].remaining = axis[i].remaining - 1 /\ RisingEdge(i)
       /\ RisingEdge(i) => axis'[i].remaining = axis[i].remaining - 1
       /\ MotionOf(axis'[i]) # MotionOf(axis[i]) /\ ~axis[i].active
            => Dispatching /\ StartsWith(Line, S_PUMP)
       /\ Dispatching => (axis[i].active => MotionOf(axis'[i]) = MotionOf(axis[i]))]_vars

\* The half-period argument of a well-formed PUMP line, and the half-period
\* clamped to the minimum
PumpHalf(s) ==
  ToInt(SubSeq(s, (CHOOSE k \in 9 .. Len(s) - 1 : s[k] = " ") + 1, Len(s)))
ClampedHalf(s) ==
  IF PumpHalf(s) > MIN_STEP_DELAY_US THEN PumpHalf(s) ELSE MIN_STEP_DELAY_US
\* The step is the dispatch of a well-formed PUMP line that is accepted
Accepted ==
  /\ Dispatching /\ WellFormedPump(Line) /\ PumpSteps(Line) # 0
  /\ NewReply /\ LastReply' = ReplyOk

\* C28: the dispatch of an accepted PUMP leaves its axis with the direction
\* forward iff steps > 0, the remaining count |steps|, the period twice the
\* clamped half-period and the first rising edge due 100 us after the
\* acceptance; the channel is active, the motor-enable is on, the abort flag
\* is cleared, and the three other axis channels are unchanged.
C28_AcceptedPumpLoadsAxis ==
  [][Accepted =>
       /\ axis'[PumpAxis(Line)] =
            [axis[PumpAxis(Line)] EXCEPT
               !.dir = PumpSteps(Line) > 0,
               !.remaining = Abs(PumpSteps(Line)),
               !.period2_us = 2 * ClampedHalf(Line),
               !.next_step_us = (micros + StartOffsetUs) % UsMod,
               !.active = TRUE]
       /\ motors_enabled' /\ ~abort_steps'
       /\ \A j \in Axes \ {PumpAxis(Line)} : axis'[j] = axis[j]]_vars

\* C29: at every stepper tick, a step line that is high and whose low-edge
\* deadline has passed is lowered, whether its axis is active or not (the
\* last pulse of a motion leaves it inactive); the line is high after the
\* tick only if the tick has raised it again for a next step.  Hence the
\* line of an inactive axis is low once a tick has run after the deadline
\* of its last pulse.
C29_PulseIsLowered ==
  [][pc = "stepper" =>
       \A i \in Axes :
         (/\ step_pin[i]
          /\ SignedGE(micros, axis[i].low_deadline_us, UsMod)
          /\ axis'[i].remaining = axis[i].remaining)
           => ~step_pin'[i]]_vars

\* The reply codes of a rejected PUMP
PumpRefusals == {"PUMP_AXIS", "PUMP_ARGS", "PUMP_BUSY", "PUMP_LEVEL"}

\* C30: with the level input clear, a line that starts with "PUMP " and
\* whose next character is not X, Y, Z or E replies ERR|PUMP_AXIS whatever
\* follows; and every PUMP line answered ERR|PUMP_AXIS, ERR|PUMP_ARGS,
\* ERR|PUMP_BUSY or ERR|PUMP_LEVEL leaves all axis channels, the
\* motor-enable flag and the abort flag unchanged.
C30_BadAxisRefused ==
  [][(Dispatching /\ StartsWith(Line, S_PUMP)) =>
       /\ (~lvl_low /\ Line[6] \notin {"X", "Y", "Z", "E"})
            => NewReply /\ LastReply' = ReplyErr("PUMP_AXIS")
       /\ (\E c \in PumpRefusals : LastReply' = ReplyErr(c))
            => /\ axis' = axis
               /\ motors_enabled' = motors_enabled
               /\ abort_steps' = abort_steps]_vars

\* PUMP Q 1 2, well formed but for its axis, was refused while pump X was
\* dosing, the motors on
C30_Witness ==
  /\ pc = "serial" /\ ndisp = 1 /\ ~lvl_low
  /\ cmd = L_PUMP_BAD_AXIS /\ LastReply = ReplyErr("PUMP_AXIS")
  /\ axis[0].active /\ axis[0].remaining = 1 /\ motors_enabled

\* C31: a PID tick of a channel whose target is <= 0 never sets the fault
\* flag of that channel, whatever its sensor reads: the flag is not set
\* after the tick if it was not set before it.
C31_IdleNeverFaults ==
  [][PidTick =>
       \A ch \in Channels :
         (pid[ch].target <= 0 /\ ~pid[ch].fault) => ~pid'[ch].fault]_vars

\* The channel is as a reset leaves it
AsReset(ch) ==
  pid[ch].last_ms = 0 /\ pid[ch].integ = 0 /\ pid[ch].prevE = 0

\* C32: in SpecDt, where every PID tick comes MaxElapseMs counts after the
\* preceding tick of the channel, a tick that runs the control law
\* integrates the error over that time, or over 0.1 s if the channel is as
\* a reset left it; also when the preceding ticks were faulted.
C32_DtSincePrecedingTick ==
  [][PidTick =>
       \A ch \in Channels :
         Regulating(ch) =>
           pid'[ch].integ =
             pid[ch].integ + (pid[ch].target - Reading(ch)) *
               (IF AsReset(ch) THEN DefaultDt ELSE DtPerCount * MaxElapseMs)]_vars

\* How long the sensor tick will still wait, in counts of millis, before it
\* requests a conversion (line 210) or reads the probes (line 218)
RequestWait ==
  IF millis >= ds18_next_request_ms THEN 0 ELSE ds18_next_request_ms - millis
ReadWait ==
  IF SignedGE(millis, ds18_ready_ms, MsMod) THEN 0
  ELSE (ds18_ready_ms - millis) % MsMod

\* C33: the sensor state machine is never more than one cycle from its next
\* step: while no conversion is pending the next request is at most 500 ms
\* away, and while one is pending the next read is at most 800 ms away, so
\* that with time advancing and ticks running a request and then a refresh
\* of the cache come within about one cycle; also when millis overflows and
\* after SERVOFEED has blocked loop().
C33_NeverStuck ==
  IF ds18_pending THEN ReadWait <= ConvWaitMs ELSE RequestWait <= NextReqMs

\* The setpoints are within their ranges (temperatures in tenths)
SetpointsInRange ==
  /\ fan_manual = -1 \/ fan_manual \in 0 .. 255
  /\ autocool_thresh \in 100 .. 400
  /\ pid["water"].target \in 0 .. 400
  /\ pid["reserve"].target \in 0 .. 500
  /\ servo \in 0 .. 180

\* C34: before and after every step the setpoints are within their ranges;
\* the dispatch of FAN v with v < 0 and of every AUTOCOOL leaves the fan in
\* automatic mode; HEATW leaves the reserve channel and HEATR the water
\* channel as it was.
C34_SetpointsInRange ==
  [][/\ SetpointsInRange /\ SetpointsInRange'
     /\ Dispatching =>
          /\ (StartsWith(Line, S_FAN) /\ ToInt(SubSeq(Line, 5, Len(Line))) < 0)
               => fan_manual' = -1
          /\ StartsWith(Line, S_AUTOCOOL) => fan_manual' = -1
          /\ StartsWith(Line, S_HEATW) => pid'["reserve"] = pid["reserve"]
          /\ StartsWith(Line, S_HEATR) => pid'["water"] = pid["water"]]_vars

\* No axis channel is active
NoneActive(ax) == \A i \in Axes : ~ax[i].active

\* C35: in every state, if the abort flag is set no axis channel is active;
\* the flag is set only by the dispatch of MTR OFF, every step that
\* activates a channel leaves the flag cleared, and a stepper tick never
\* finds the flag set on an active channel whose step is due.
C35_AbortMeansIdle ==
  [][/\ abort_steps => NoneActive(axis)
     /\ abort_steps' => NoneActive(axis')
     /\ (~abort_steps /\ abort_steps') => Dispatching /\ Line = S_MTR_OFF
     /\ (\E i \in Axes : ~axis[i].active /\ axis'[i].active) => ~abort_steps'
     /\ pc = "stepper" =>
          \A i \in Axes :
            (axis[i].active /\ SignedGE(micros, axis[i].next_step_us, UsMod))
              => ~abort_steps]_vars

\* MTR OFF has just cut the motion of pump X with one step left: the flag
\* is set and the channel is inactive
C35_Witness ==
  /\ pc = "serial" /\ ndisp = 1 /\ cmd = L_MTR_OFF
  /\ abort_steps /\ ~axis[0].active /\ axis[0].remaining = 1

\* The drivers are enabled: the flag is on and the enable lines, which are
\* active low, are low
DriversOn(flag, en) == flag /\ \A i \in Axes : ~en[i]

\* C36: in every state, if an axis channel is active the motor-enable flag
\* is on and the drivers are enabled; a stepper tick writes a step only
\* with the drivers enabled; and the flag, once on, goes off only in the
\* dispatch of MTR OFF, so it stays on when a motion completes.
C36_ActiveMeansEnabled ==
  [][/\ ~NoneActive(axis) => DriversOn(motors_enabled, en_pin)
     /\ ~NoneActive(axis') => DriversOn(motors_enabled', en_pin')
     /\ (pc = "stepper" /\ \E i \in Axes :
            axis'[i].remaining # axis[i].remaining \/ RisingEdge(i))
          => DriversOn(motors_enabled, en_pin)
     /\ (motors_enabled /\ ~motors_enabled')
          => Dispatching /\ Line = S_MTR_OFF]_vars

\* The two steps of PUMP X 2 2 are done and no MTR OFF came: the drivers
\* are still enabled
C36_Witness ==
  /\ pc = "wait" /\ halted = "no" /\ NoneActive(axis)
  /\ axis[0].remaining = 0 /\ axis[0].period2_us = 2 * MIN_STEP_DELAY_US
  /\ owed[0] = 0 /\ DriversOn(motors_enabled, en_pin)

\* The three level inputs
Levels == <<lvl_low, lvl_high, lvl_alert>>

\* C37: the level inputs gate only the start of a motion.  A step in which
\* an input changes leaves every axis channel and line as it was; a stepper
\* tick that finds a step due on an active axis emits it whatever the
\* inputs are; an active axis becomes inactive only in the tick that
\* exhausts its count or in the dispatch of MTR OFF; and only a PUMP line
\* dispatched while the low input is asserted is answered ERR|PUMP_LEVEL,
\* whatever the high and the alert input are.
C37_LevelGatesStartOnly ==
  [][/\ Levels' # Levels => motor_vars' = motor_vars
     /\ \A i \in Axes :
          /\ (/\ pc = "stepper" /\ axis[i].active
              /\ SignedGE(micros, axis[i].next_step_us, UsMod))
               => axis'[i].remaining = axis[i].remaining - 1 /\ step_pin'[i]
          /\ (axis[i].active /\ ~axis'[i].active)
               => \/ pc = "stepper" /\ axis'[i].remaining <= 0
                  \/ Dispatching /\ Line = S_MTR_OFF
     /\ (Dispatching /\ NewReply /\ LastReply' = ReplyErr("PUMP_LEVEL"))
          => lvl_low /\ StartsWith(Line, S_PUMP)
     /\ (Dispatching /\ StartsWith(Line, S_PUMP) /\ ~lvl_low)
          => NewReply /\ LastReply' # ReplyErr("PUMP_LEVEL")]_vars

\* Pump X was started, then all three inputs were asserted, and the tick
\* has emitted the first of its two steps
C37_Witness ==
  /\ pc = "heaters" /\ lvl_low /\ lvl_high /\ lvl_alert
  /\ axis[0].active /\ axis[0].remaining = 1 /\ step_pin[0] /\ owed[0] = 1

\* C38: the reserve heater output is off before and after every step; every
\* PID tick faults the reserve channel and returns 0 for it, whatever
\* target and gains HEATR and PIDR have set.
C38_ReserveAlwaysOff ==
  [][/\ heat_pin["reserve"] = 0 /\ heat_pin'["reserve"] = 0
     /\ PidTick => pid'["reserve"].fault /\ pwm'["reserve"] = 0]_vars

\* The reserve channel has ticked with the target HEATR 99 has set, clamped
\* to 50 C: it is faulted and its heater is off
C38_Witness ==
  /\ pc = "fan" /\ pid["reserve"].target = 500 /\ pid["reserve"].fault
  /\ pwm["reserve"] = 0 /\ heat_pin["reserve"] = 0 /\ cached_ds[0] = 259

\* The step dispatches a well-formed PUMP with the abort flag still set by
\* MTR OFF (no PUMP was accepted and no MTR ON came since) and the level
\* input clear
PumpAfterOff ==
  Dispatching /\ abort_steps /\ ~lvl_low /\ WellFormedPump(Line)

\* C39: MTR OFF does not latch. While the abort flag is set the drivers are
\* disabled; a well-formed PUMP with non-zero steps dispatched then, the
\* level input clear, is answered OK, enables the drivers, clears the abort
\* flag and starts its axis with |steps| rising edges owed; the motion so
\* started owes edges as long as its axis is active and none once it is
\* inactive; a PUMP with zero steps dispatched then is answered OK and
\* leaves the drivers disabled, the abort flag set and the axes untouched.
C39_MtrOffNotLatching ==
  [][/\ abort_steps => ~motors_enabled /\ \A i \in Axes : en_pin[i]
     /\ (PumpAfterOff /\ PumpSteps(Line) # 0) =>
          /\ NewReply /\ LastReply' = ReplyOk
          /\ DriversOn(motors_enabled', en_pin')
          /\ ~abort_steps'
          /\ axis'[PumpAxis(Line)].active
          /\ after_off'[PumpAxis(Line)]
          /\ owed'[PumpAxis(Line)] = Abs(PumpSteps(Line))
     /\ \A i \in Axes :
          after_off'[i] =>
            IF axis'[i].active THEN owed'[i] > 0 ELSE owed'[i] = 0
     /\ (PumpAfterOff /\ PumpSteps(Line) = 0) =>
          /\ NewReply /\ LastReply' = ReplyOk
          /\ ~motors_enabled' /\ \A i \in Axes : en_pin'[i]
          /\ abort_steps'
          /\ axis' = axis]_vars

\* PUMP X 2 2 was accepted while the abort flag was set and no other
\* command came since: its two steps are done, the drivers are enabled and
\* the flag is clear
C39_Witness ==
  /\ pc = "wait" /\ after_off[0] /\ halted = "no"
  /\ ~axis[0].active /\ owed[0] = 0 /\ since_rise[0] < SinceCap
  /\ DriversOn(motors_enabled, en_pin) /\ ~abort_steps

\* The byte stream the drain works on, its complete non-empty lines (the
\* terminators that follow a byte other than a terminator), its first line,
\* what follows the terminator of the first line, and its bytes other than
\* terminators
Stream == inbuf \o rx
NLines(s) ==
  Cardinality({k \in 2 .. Len(s) : s[k] \in {"\r", "\n"}
                                    /\ s[k - 1] \notin {"\r", "\n"}})
FirstLine(s) == Unterminated(SkipEol(s))
AfterFirstLine(s) ==
  SubSeq(SkipEol(s), Len(FirstLine(s)) + 2, Len(SkipEol(s)))
NoEols(s) == SelectSeq(s, LAMBDA c : c \notin {"\r", "\n"})

\* C40: a terminator dispatches only a non-empty buffer: each dispatch
\* takes one complete non-empty line off the stream, so a line ended by CR
\* LF is dispatched once and terminators alone, or before a line, dispatch
\* nothing; the command dispatched is made of the bytes of the first line
\* in arrival order (those the buffer keeps, up to a zero byte), the bytes
\* after its terminator are left for the next line and the buffer is
\* empty; a drain that ends without a dispatch had no complete line, sends
\* nothing and keeps the bytes of the unfinished line in order.
C40_LineFraming ==
  [][/\ Dispatching =>
          /\ NLines(Stream) >= 1
          /\ NLines(inbuf' \o rx') = NLines(Stream) - 1
          /\ FirstLine(Stream) # <<>>
          /\ cmd' = Norm(CStr(Take(FirstLine(Stream), InbufSize - 1)))
          /\ inbuf' = <<>>
          /\ rx' = AfterFirstLine(Stream)
     /\ IdleStep =>
          /\ NLines(Stream) = 0
          /\ tx' = tx /\ ndisp' = ndisp
          /\ inbuf' = Take(NoEols(Stream), InbufSize - 1)
          /\ rx' = <<>>]_vars

\* HELLO? CR LF was the only line of the iteration and the buffer was
\* empty before it: it was dispatched once and answered once
C40_Witness ==
  /\ pc = "wait" /\ nbuf = 1 /\ ndisp = 1 /\ cmd = L_HELLO
  /\ inbuf = <<>> /\ rx = <<>> /\ Len(tx) = 1

====
